---- MODULE Spec2Model ----
(***************************************************************************)
(* A model of the classias trainers: trainer_logress (binary logistic      *)
(* regression), trainer_maxent (multi-candidate maximum entropy) and       *)
(* trainer_lbfgs_multi (multinomial logistic regression), together with    *)
(* the callback protocol between train() and the L-BFGS solver.            *)
(*                                                                         *)
(* Real numbers (value_type = double) are fixed-point integers with Scale  *)
(* units per 1.0.  Feature identifiers are 0-based as in the source; the   *)
(* array cell x[i] of the source is the sequence element x[i + 1].         *)
(***************************************************************************)
EXTENDS Integers, Sequences, FiniteSets, TLC

VARIABLES
    trainer,                \* which trainer class the object is
    data,                   \* the data set handed to train()
    pc,                     \* position of the caller / solver
    m_weights,              \* value_type *m_weights (<<>> is the null pointer)
    m_oexps,                \* value_type *m_oexps
    m_mexps,                \* value_type *m_mexps
    m_scores,               \* value_type *m_scores
    m_holdout,              \* int m_holdout
    m_regularization,       \* std::string m_regularization
    m_regularization_sigma, \* value_type m_regularization_sigma (plain integer)
    m_regularization_start, \* int m_regularization_start
    m_lbfgs_linesearch,     \* std::string m_lbfgs_linesearch
    m_maxiter,              \* int m_maxiter / m_lbfgs_maxiter
    m_c1,                   \* value_type m_c1
    m_c2,                   \* value_type m_c2
    m_data,                 \* const data_type* m_data   (TRUE when bound)
    m_os,                   \* std::ostream* m_os        (TRUE when bound)
    arg,                    \* the arguments of the train() call in progress
    solver,                 \* the arguments train() handed to lbfgs_solve
    g,                      \* the gradient buffer of the solver
    fx,                     \* the loss the last evaluate call returned
    k,                      \* the iteration number of the last progress call
    stop,                   \* the value the last progress call returned
    ret,                    \* the status train() returned
    tally,                  \* the counts of the last holdout evaluation
    opt,                    \* the options of the frontend (option& opt)
    lines,                  \* int lines of read_stream
    thrown                  \* the exception that ended the frontend, if any

vars == <<trainer, data, pc, m_weights, m_oexps, m_mexps, m_scores, m_holdout,
          m_regularization, m_regularization_sigma, m_regularization_start,
          m_lbfgs_linesearch, m_maxiter, m_c1, m_c2, m_data, m_os, arg,
          solver, g, fx, k, stop, ret, tally, opt, lines, thrown>>

----------------------------------------------------------------------------
(* Bounds of the model. *)

\* The largest number of instances in a data set.
MaxInst == 2

\* The largest iteration number the solver reports to the progress callback.
MaxIter == 2

----------------------------------------------------------------------------
(* Fixed-point arithmetic. *)

\* Units per 1.0 of a value_type.
Scale == 1000

Abs(a) == IF a < 0 THEN -a ELSE a

Sign(a) == IF a < 0 THEN -1 ELSE 1

\* a * b of two fixed-point numbers, rounded towards zero; the product is
\* split so that no intermediate value leaves 32 bits.
Mul(a, b) ==
    LET ph == Abs(a) \div Scale
        pl == Abs(a) % Scale
        qh == Abs(b) \div Scale
        ql == Abs(b) % Scale
    IN  Sign(a) * Sign(b)
          * (ph * qh * Scale + ph * ql + pl * qh + (pl * ql) \div Scale)

\* e^(-q) for a whole number q >= 0.
ExpInt(q) ==
    CASE q = 0 -> 1000
      [] q = 1 -> 368
      [] q = 2 -> 135
      [] q = 3 -> 50
      [] q = 4 -> 18
      [] q = 5 -> 7
      [] q = 6 -> 2
      [] q = 7 -> 1
      [] OTHER -> 0

\* e^(-r / Scale) for 0 <= r < Scale (Horner form of the Taylor polynomial).
ExpFrac(r) ==
    LET a4 == Scale - r \div 4
        a3 == Scale - (r * a4) \div (3 * Scale)
        a2 == Scale - (r * a3) \div (2 * Scale)
    IN  Scale - (r * a2) \div Scale

\* std::exp(m) for a fixed-point m <= 0.
Exp(m) ==
    LET n == -m
    IN  (ExpInt(n \div Scale) * ExpFrac(n % Scale)) \div Scale

\* std::log(1 + u) for a fixed-point 0 <= u <= 1.0 (series in u / (2 + u)).
Log1p(u) ==
    LET z  == (Scale * u) \div (2 * Scale + u)
        z3 == (z * z * z) \div (Scale * Scale)
        z5 == (z3 * z * z) \div (Scale * Scale)
    IN  2 * (z + z3 \div 3 + z5 \div 5)

\* 1 / (1 + std::exp(-s)).
Logistic(s) ==
    IF s >= 0 THEN (Scale * Scale) \div (Scale + Exp(-s))
              ELSE (Scale * Exp(s)) \div (Scale + Exp(s))

\* std::log(1 / (1 + std::exp(-s))), kept in the log domain so that it stays
\* finite where the probability is below the fixed-point resolution.
LogLogistic(s) ==
    IF s >= 0 THEN -Log1p(Exp(-s))
              ELSE s - Log1p(Exp(s))

\* An array of n zeros.
Zeros(n) == [i \in 1..n |-> 0]

----------------------------------------------------------------------------
(* Data sets. *)

\* The elements of the sequence pool at the positions in I, in pool order.
RECURSIVE Pick(_, _, _)
Pick(pool, I, n) ==
    IF n = 0 THEN <<>>
    ELSE IF n \in I THEN Append(Pick(pool, I, n - 1), pool[n])
    ELSE Pick(pool, I, n - 1)

\* The instance sequences of the data sets: at most MaxInst instances of the
\* pool, in the order of the pool.
InstanceSeqs(pool) ==
    { Pick(pool, I, Len(pool)) :
        I \in {J \in SUBSET (1..Len(pool)) : Cardinality(J) <= MaxInst} }

\* The feature dictionary of the data sets: identifier i is Features[i + 1].
Features == <<"a", "b">>

\* The group numbers given to read_stream().
Groups == {0, 1}

\* The holdout arguments given to train(); -1 is "no holdout".
Holdouts == {-1, 1}

\* Binary instances (one feature vector, a truth flag, a group, a weight).
BinaryInstances ==
    << [group |-> 0, truth |-> TRUE,  weight |-> Scale,     features |-> << <<0, Scale>> >>],
      [group |-> 1, truth |-> TRUE,  weight |-> Scale,     features |-> << <<0, 2 * Scale>>, <<1, Scale>> >>],
      [group |-> 0, truth |-> FALSE, weight |-> 2 * Scale, features |-> << <<1, Scale>>, <<1, Scale>> >>],
      [group |-> 1, truth |-> FALSE, weight |-> Scale,     features |-> << <<0, Scale>> >>] >>

\* The data sets of one family of instances.
DataSets(pool) ==
    { [instances |-> s, features |-> Features, user_feature_start |-> u] :
        s \in InstanceSeqs(pool), u \in {0, 1} }

\* data.num_features() / data.traits.num_features()
num_features(d) == Len(d.features)

----------------------------------------------------------------------------
(* linear_binary_instance and trainer_logress::lbfgs_evaluate. *)

\* linear_binary_instance::operator() applied to every entry of a feature
\* vector: m_score += m_model[key] * value.
RECURSIVE inner_product(_, _)
inner_product(x, f) ==
    IF f = <<>> THEN 0
    ELSE inner_product(x, SubSeq(f, 1, Len(f) - 1))
         + Mul(x[f[Len(f)][1] + 1], f[Len(f)][2])

BoolValue(b) == IF b THEN Scale ELSE 0

\* logistic_error(b, logp): the probability p used, the error returned and logp.
logistic_error(b, m_score) ==
    IF -100 * Scale < m_score THEN
        [p |-> 0, d |-> BoolValue(b) - 0, logp |-> Mul(BoolValue(b), m_score)]
    ELSE IF 100 * Scale < m_score THEN
        [p |-> Scale, d |-> BoolValue(b) - Scale,
         logp |-> Mul(BoolValue(b) - Scale, m_score)]
    ELSE
        [p |-> Logistic(m_score), d |-> BoolValue(b) - Logistic(m_score),
         logp |-> IF b THEN LogLogistic(m_score) ELSE LogLogistic(-m_score)]

\* logistic_error(b), the overload without logp: the probability and the error.
logistic_error_b(b, m_score) ==
    IF -100 * Scale < m_score THEN [p |-> 0, d |-> BoolValue(b) - 0]
    ELSE IF 100 * Scale < m_score THEN [p |-> Scale, d |-> BoolValue(b) - Scale]
    ELSE [p |-> Logistic(m_score), d |-> BoolValue(b) - Logistic(m_score)]

\* for (itf ...) g[itf->first] += itf->second * scale
RECURSIVE add_to(_, _, _)
add_to(a, f, scale) ==
    IF f = <<>> THEN a
    ELSE [add_to(a, SubSeq(f, 1, Len(f) - 1), scale)
             EXCEPT ![f[Len(f)][1] + 1] = @ + Mul(f[Len(f)][2], scale)]

\* A loop that leaves a buffer of the right length as it finds it (the
\* variant without the initialization).
clear_buffer_kept(buffer, n) == IF Len(buffer) = n THEN buffer ELSE Zeros(n)

\* for (int i = 0; i < n; ++i) buffer[i] = 0.: the buffer, which holds what
\* the last call has left in it, after the loop.
clear_buffer(buffer, n) == Zeros(n)

\* A loop that skips no instance (the variant without the holdout test).
logress_excluded_none(inst, holdout) == FALSE

\* Whether the loop over the instances skips this one.
logress_excluded(inst, holdout) == inst.group = holdout

\* The body of the loop for an included instance, e being the result of
\* logistic_error: loss -= weight * logp;  g[id] -= value * d * weight.
logress_accumulate(acc, iti, e) ==
    [loss |-> acc.loss - Mul(iti.weight, e.logp),
     g    |-> add_to(acc.g, iti.features, -Mul(e.d, iti.weight))]

\* One pass of the loop over the instances.
logress_instance(acc, iti, x, holdout) ==
    IF logress_excluded(iti, holdout) THEN acc
    ELSE logress_accumulate(acc, iti,
             logistic_error(iti.truth, inner_product(x, iti.features)))

\* The loop over the instances of trainer_logress::lbfgs_evaluate.
RECURSIVE logress_instances(_, _, _, _)
logress_instances(insts, x, n, holdout) ==
    IF insts = <<>> THEN [loss |-> 0, g |-> clear_buffer(g, n)]
    ELSE logress_instance(
             logress_instances(SubSeq(insts, 1, Len(insts) - 1), x, n, holdout),
             insts[Len(insts)], x, holdout)

\* x[i] * x[i] summed over from <= i < n (0-based).
RECURSIVE SquaredNorm(_, _, _)
SquaredNorm(x, from, n) ==
    IF from >= n THEN 0
    ELSE Mul(x[from + 1], x[from + 1]) + SquaredNorm(x, from + 1, n)

\* An L2 term that covers every index (the variant that ignores the start).
logress_l2_first_zero(start) == 0

\* The first index the L2 term of trainer_logress::lbfgs_evaluate covers.
logress_l2_first(start) == start

\* The L2 block: g[i] += c2 * x[i] for first <= i < n, loss += c2 * norm * 0.5.
l2_regularize(r, x, n, c2, first) ==
    IF c2 # 0 THEN
        [loss |-> r.loss + Mul(Mul(c2, SquaredNorm(x, first, n)), Scale \div 2),
         g    |-> [i \in 1..n |-> IF i - 1 >= first THEN r.g[i] + Mul(c2, x[i])
                                                    ELSE r.g[i]]]
    ELSE r

\* The L1 norm of x over from <= i < n (0-based).
RECURSIVE AbsNorm(_, _, _)
AbsNorm(x, from, n) ==
    IF from >= n THEN 0 ELSE Abs(x[from + 1]) + AbsNorm(x, from + 1, n)

\* An evaluator that adds the L1 term c1 * |x| itself (the variant in which
\* the L1 penalty is not left to the solver).
logress_lbfgs_evaluate_l1(d, x, n, holdout, c1, c2, start) ==
    LET r == l2_regularize(logress_instances(d.instances, x, n, holdout),
                           x, n, c2, start)
    IN  [loss |-> r.loss + Mul(c1, AbsNorm(x, start, n)),
         g    |-> [i \in 1..n |-> IF i - 1 >= start /\ x[i] # 0
                                   THEN r.g[i] + Sign(x[i]) * c1
                                   ELSE r.g[i]]]

\* trainer_logress::lbfgs_evaluate(x, g, n, step): the loss returned and g.
\* The members the method can read are parameters: m_holdout, m_c1, m_c2 and
\* m_regularization_start.
logress_lbfgs_evaluate(d, x, n, holdout, c1, c2, start) ==
    l2_regularize(logress_instances(d.instances, x, n, holdout),
                  x, n, c2, logress_l2_first(start))

----------------------------------------------------------------------------
(* trainer_maxent: observation expectations, lbfgs_evaluate, logsumexp. *)

\* Multi-candidate instances; the fourth is an @boi directly followed by
\* @eoi, the last has no true candidate.
MaxentInstances ==
    << [group |-> 0, candidates |->
          << [truth |-> TRUE,  features |-> << <<0, Scale>> >>],
             [truth |-> FALSE, features |-> << <<1, Scale>>, <<1, Scale>> >>] >>],
      [group |-> 1, candidates |->
          << [truth |-> FALSE, features |-> << <<0, Scale>> >>],
             [truth |-> TRUE,  features |-> << <<0, 2 * Scale>>, <<1, Scale>> >>] >>],
      [group |-> 0, candidates |->
          << [truth |-> FALSE, features |-> << <<0, 2 * Scale>>, <<1, Scale>> >>],
             [truth |-> FALSE, features |-> << <<0, Scale>> >>],
             [truth |-> TRUE,  features |-> << <<1, Scale>>, <<1, Scale>> >>] >>],
      [group |-> 1, candidates |-> <<>>],
      [group |-> 0, candidates |->
          << [truth |-> FALSE, features |-> << <<0, Scale>> >>] >>] >>

\* A normalizer step that keeps the larger score only (the variant without
\* the correction term).
logsumexp_max(x, y, flag) == IF flag \/ x < y THEN y ELSE x

\* trainer_maxent::logsumexp(x, y, flag)
logsumexp(x, y, flag) ==
    IF flag THEN y
    ELSE IF x = y THEN x + 693
    ELSE LET vmin == IF x < y THEN x ELSE y
             vmax == IF x < y THEN y ELSE x
         IN  IF vmin + 50 * Scale < vmax THEN vmax
             ELSE vmax + Log1p(Exp(vmin - vmax))

\* Whether the loops of trainer_maxent skip this instance as a holdout one.
maxent_excluded(inst, holdout) == inst.group = holdout

\* if (itc->is_true()) itc->add(m_oexps, 1.0)
add_true_candidate(oexps, itc) ==
    IF itc.truth THEN add_to(oexps, itc.features, Scale) ELSE oexps

\* The true candidates of an instance added to the observation expectations.
RECURSIVE add_true_candidates(_, _)
add_true_candidates(oexps, cands) ==
    IF cands = <<>> THEN oexps
    ELSE add_true_candidate(
             add_true_candidates(oexps, SubSeq(cands, 1, Len(cands) - 1)),
             cands[Len(cands)])

\* One pass of the loop of trainer_maxent::train over the instances.
maxent_observation(acc, iti, holdout) ==
    IF maxent_excluded(iti, holdout) THEN acc
    ELSE [oexps |-> add_true_candidates(acc.oexps, iti.candidates),
          M     |-> IF acc.M < Len(iti.candidates)
                    THEN Len(iti.candidates) ELSE acc.M]

\* The loop of trainer_maxent::train over the instances: m_oexps and M.
RECURSIVE maxent_observations(_, _, _)
maxent_observations(insts, K, holdout) ==
    IF insts = <<>> THEN [oexps |-> Zeros(K), M |-> 0]
    ELSE maxent_observation(
             maxent_observations(SubSeq(insts, 1, Len(insts) - 1), K, holdout),
             insts[Len(insts)], holdout)

\* One pass of the first loop over the candidates, for candidate #i with
\* score sc: m_scores[i] = sc; logp; norm = logsumexp(norm, sc, i == 0).
maxent_score(acc, itc, i, sc) ==
    [scores |-> [acc.scores EXCEPT ![i + 1] = sc],
     logp   |-> IF itc.truth THEN sc ELSE acc.logp,
     norm   |-> logsumexp(acc.norm, sc, i = 0)]

\* The first loop over the candidates: m_scores, logp and norm.
RECURSIVE maxent_scores(_, _, _)
maxent_scores(cands, x, scores) ==
    IF cands = <<>> THEN [scores |-> scores, logp |-> 0, norm |-> 0]
    ELSE maxent_score(maxent_scores(SubSeq(cands, 1, Len(cands) - 1), x, scores),
                      cands[Len(cands)], Len(cands) - 1,
                      inner_product(x, cands[Len(cands)].features))

\* The second loop: itc->add(m_mexps, std::exp(m_scores[i] - norm)).
RECURSIVE maxent_expectations(_, _, _, _)
maxent_expectations(mexps, cands, scores, norm) ==
    IF cands = <<>> THEN mexps
    ELSE add_to(maxent_expectations(mexps, SubSeq(cands, 1, Len(cands) - 1),
                                    scores, norm),
                cands[Len(cands)].features, Exp(scores[Len(cands)] - norm))

\* The body of the loop for an included instance, s being the result of the
\* first loop over its candidates: the expectations and loss -= (logp - norm).
maxent_accumulate(acc, iti, s) ==
    [loss   |-> acc.loss - (s.logp - s.norm),
     mexps  |-> maxent_expectations(acc.mexps, iti.candidates, s.scores, s.norm),
     scores |-> s.scores]

\* One pass of the loop over the instances.
maxent_instance(acc, iti, x, holdout) ==
    IF maxent_excluded(iti, holdout) THEN acc
    ELSE maxent_accumulate(acc, iti, maxent_scores(iti.candidates, x, acc.scores))

\* The loop of trainer_maxent::lbfgs_evaluate over the instances.
RECURSIVE maxent_instances(_, _, _, _, _)
maxent_instances(insts, x, n, holdout, scores) ==
    IF insts = <<>> THEN [loss |-> 0, mexps |-> clear_buffer(m_mexps, n),
                          scores |-> scores]
    ELSE maxent_instance(
             maxent_instances(SubSeq(insts, 1, Len(insts) - 1), x, n, holdout, scores),
             insts[Len(insts)], x, holdout)

\* The first index the L2 term of trainer_maxent::lbfgs_evaluate covers.
maxent_l2_first(start) == 0

\* trainer_maxent::lbfgs_evaluate(x, g, n, step): the loss returned, g, and the
\* buffers m_mexps and m_scores it leaves.
maxent_gradient(r, lg) ==
    [loss |-> lg.loss, g |-> lg.g, mexps |-> r.mexps, scores |-> r.scores]

\* An evaluator that returns observed minus expected (the variant with the
\* sign of the gradient reversed).
maxent_finish_reversed(r, x, n, c2, first, oexps) ==
    maxent_gradient(r,
        l2_regularize([loss |-> r.loss,
                       g    |-> [i \in 1..n |-> oexps[i] - r.mexps[i]]],
                      x, n, c2, first))

maxent_finish(r, x, n, c2, first, oexps) ==
    maxent_gradient(r,
        l2_regularize([loss |-> r.loss,
                       g    |-> [i \in 1..n |-> -(oexps[i] - r.mexps[i])]],
                      x, n, c2, first))

maxent_lbfgs_evaluate(d, x, n, holdout, c1, c2, start, oexps, scores) ==
    maxent_finish(maxent_instances(d.instances, x, n, holdout, scores),
                  x, n, c2, maxent_l2_first(start), oexps)

----------------------------------------------------------------------------
(* trainer_lbfgs_multi: the multinomial trainer over attribute instances. *)

\* The attribute and label dictionaries of the attribute data sets.
Attributes == <<"a">>

Labels == <<"x", "y">>

\* Attribute instances: an attribute vector, a gold label and a group.
MultiInstances ==
    << [group |-> 0, label |-> 0, features |-> << <<0, Scale>> >>],
      [group |-> 1, label |-> 1, features |-> << <<0, Scale>> >>],
      [group |-> 0, label |-> 1, features |-> << <<0, Scale>>, <<0, Scale>> >>],
      [group |-> 1, label |-> 0, features |-> << <<0, 2 * Scale>> >>] >>

MultiDataSets ==
    { [instances |-> s, features |-> Attributes, labels |-> Labels,
       user_feature_start |-> u] :
        s \in InstanceSeqs(MultiInstances), u \in {0, 1} }

\* data.num_labels()
num_labels(d) == Len(d.labels)

\* data.num_features() of an attribute data set: one feature per
\* (attribute, label) pair.
multi_num_features(d) == Len(d.features) * Len(d.labels)

\* feature_generator.forward(a, l): the feature of attribute a and label l.
forward(a, l, L) == a * L + l

\* feature_generator.add_to(v, first, last, l, scale)
RECURSIVE generator_add_to(_, _, _, _, _)
generator_add_to(v, f, l, scale, L) ==
    IF f = <<>> THEN v
    ELSE [generator_add_to(v, SubSeq(f, 1, Len(f) - 1), l, scale, L)
             EXCEPT ![forward(f[Len(f)][1], l, L) + 1] = @ + Mul(f[Len(f)][2], scale)]

\* cls.inner_product(l, first, last, l): the score of label l.
RECURSIVE generator_inner_product(_, _, _, _)
generator_inner_product(x, f, l, L) ==
    IF f = <<>> THEN 0
    ELSE generator_inner_product(x, SubSeq(f, 1, Len(f) - 1), l, L)
         + Mul(x[forward(f[Len(f)][1], l, L) + 1], f[Len(f)][2])

\* The scores of the labels 0 .. L-1 (element l + 1 is the score of label l).
label_scores(x, f, L) == [l \in 1..L |-> generator_inner_product(x, f, l - 1, L)]

\* cls.finalize(): the normalizer of the scores.
RECURSIVE normalizer(_, _)
normalizer(scores, m) ==
    IF m = 0 THEN 0
    ELSE logsumexp(normalizer(scores, m - 1), scores[m], m = 1)

\* cls.prob(l), norm being the normalizer of the scores.
prob(scores, norm, l) == Exp(scores[l + 1] - norm)

\* std::log(cls.prob(l)), kept in the log domain.
log_prob(scores, norm, l) == scores[l + 1] - norm

\* cls.argmax(): the first label with the largest score.
argmax(scores) ==
    CHOOSE l \in 0..(Len(scores) - 1) :
        /\ \A j \in 1..Len(scores) : scores[j] <= scores[l + 1]
        /\ \A j \in 1..l : scores[j] < scores[l + 1]

\* Whether the loops of trainer_lbfgs_multi skip this instance; holdout is the
\* value of the member m_holdout when the loop runs.
multi_excluded(inst, holdout) == inst.group = holdout

\* One pass of the observation loop of trainer_lbfgs_multi::train.
multi_observation(acc, iti, L, holdout) ==
    IF multi_excluded(iti, holdout) THEN acc
    ELSE generator_add_to(acc, iti.features, iti.label, Scale, L)

\* The observation loop of trainer_lbfgs_multi::train.
RECURSIVE multi_observations(_, _, _, _)
multi_observations(insts, K, L, holdout) ==
    IF insts = <<>> THEN Zeros(K)
    ELSE multi_observation(
             multi_observations(SubSeq(insts, 1, Len(insts) - 1), K, L, holdout),
             insts[Len(insts)], L, holdout)

\* The model expectations of one instance added to g, label by label.
RECURSIVE multi_expectations(_, _, _, _, _, _)
multi_expectations(gr, f, scores, norm, m, L) ==
    IF m = 0 THEN gr
    ELSE generator_add_to(multi_expectations(gr, f, scores, norm, m - 1, L),
                          f, m - 1, prob(scores, norm, m - 1), L)

\* The body of the loop for an included instance with the label scores sc
\* and their normalizer: the expectations and loss -= log(prob(label)).
multi_accumulate(acc, inst, sc, norm, L) ==
    [loss |-> acc.loss - log_prob(sc, norm, inst.label),
     g    |-> multi_expectations(acc.g, inst.features, sc, norm, L, L)]

multi_classify(acc, inst, sc, L) ==
    multi_accumulate(acc, inst, sc, normalizer(sc, L), L)

\* One pass of the loop over the instances.
multi_instance(acc, inst, x, L, holdout) ==
    IF multi_excluded(inst, holdout) THEN acc
    ELSE multi_classify(acc, inst, label_scores(x, inst.features, L), L)

\* The loop of trainer_lbfgs_multi::loss_and_gradient over the instances,
\* started from g = -m_oexps.
RECURSIVE multi_instances(_, _, _, _, _)
multi_instances(insts, x, L, holdout, oexps) ==
    IF insts = <<>> THEN [loss |-> 0, g |-> [i \in DOMAIN oexps |-> -oexps[i]]]
    ELSE multi_instance(
             multi_instances(SubSeq(insts, 1, Len(insts) - 1), x, L, holdout, oexps),
             insts[Len(insts)], x, L, holdout)

\* An evaluator that starts the gradient from zero (the variant without the
\* observation expectations).
loss_and_gradient_unobserved(d, x, n, holdout, oexps) ==
    multi_instances(d.instances, x, num_labels(d), holdout,
                    [i \in DOMAIN oexps |-> 0])

\* trainer_lbfgs_multi::loss_and_gradient(x, g, n)
loss_and_gradient(d, x, n, holdout, oexps) ==
    multi_instances(d.instances, x, num_labels(d), holdout, oexps)

\* lbfgs_base::lbfgs_evaluate: loss_and_gradient and the shared L2 policy.
multi_lbfgs_evaluate(d, x, n, holdout, c1, c2, start, oexps) ==
    l2_regularize(loss_and_gradient(d, x, n, holdout, oexps), x, n, c2, start)

----------------------------------------------------------------------------
(* Holdout evaluation. *)

\* confusion_matrix matrix(2): the cell (rl, ml) is matrix[<<rl, ml>>].
EmptyMatrix == [c \in (0..1) \X (0..1) |-> 0]

\* The output of a holdout evaluation: the confusion matrix (logress, multi),
\* the accuracy counters (maxent, multi), and whether the evaluation faulted.
NoTally == [ran |-> FALSE, matrix |-> EmptyMatrix, num_correct |-> 0,
            num_total |-> 0, accuracy |-> 0, fault |-> FALSE]

\* Whether a holdout evaluation tallies this instance.
holdout_selected(inst, holdout) == inst.group = holdout

\* A prediction that takes a score of 0 for positive.
logress_predict_ge(z) == IF z < 0 THEN 0 ELSE 1

\* int ml = (z <= 0. ? 0 : 1)
logress_predict(z) == IF z <= 0 THEN 0 ELSE 1

\* One pass of the loop of trainer_logress::holdout_evaluation:
\* matrix(rl, ml)++ for an instance of the holdout group.
logress_classify(matrix, iti, w, holdout) ==
    IF ~holdout_selected(iti, holdout) THEN matrix
    ELSE [matrix EXCEPT ![<<IF iti.truth THEN 1 ELSE 0,
                            logress_predict(inner_product(w, iti.features))>>] = @ + 1]

\* trainer_logress::holdout_evaluation: the loop over the instances.
RECURSIVE logress_tally(_, _, _)
logress_tally(insts, w, holdout) ==
    IF insts = <<>> THEN EmptyMatrix
    ELSE logress_classify(logress_tally(SubSeq(insts, 1, Len(insts) - 1), w, holdout),
                          insts[Len(insts)], w, holdout)

logress_holdout_evaluation(d, w, holdout) ==
    [NoTally EXCEPT !.ran = TRUE, !.matrix = logress_tally(d.instances, w, holdout)]

\* The candidate with the maximum score, the first one on ties: its position
\* 1 .. Len(cands), or 0 for itc_max = iti->end().  Every score is above the
\* initial score_max = -DBL_MAX.
maxent_compare(acc, at, score) ==
    IF acc.at = 0 \/ acc.score_max < score
    THEN [at |-> at, score_max |-> score]
    ELSE acc

RECURSIVE maxent_itc_max(_, _)
maxent_itc_max(cands, w) ==
    IF cands = <<>> THEN [at |-> 0, score_max |-> 0]
    ELSE maxent_compare(maxent_itc_max(SubSeq(cands, 1, Len(cands) - 1), w),
                        Len(cands), inner_product(w, cands[Len(cands)].features))

\* What itc_max->is_true() yields for the selected position.  An instance
\* without candidates leaves itc_max at iti->end(); reading is_true() through
\* it is undefined: it yields either truth value or a fault.
maxent_is_true(cands, at) ==
    IF at = 0 THEN {"true", "false", "fault"}
    ELSE IF cands[at].truth THEN {"true"} ELSE {"false"}

\* if (itc_max->is_true()) ++num_correct;  ++num_total;
maxent_count(prev, read) ==
    UNION { IF acc.fault THEN {acc}
            ELSE { IF r = "fault" THEN [acc EXCEPT !.fault = TRUE]
                   ELSE [num_correct |-> acc.num_correct
                                         + (IF r = "true" THEN 1 ELSE 0),
                         num_total   |-> acc.num_total + 1,
                         fault       |-> FALSE] : r \in read }
          : acc \in prev }

\* One pass of the loop of trainer_maxent::holdout_evaluation.
maxent_classify(prev, iti, w, holdout) ==
    IF ~holdout_selected(iti, holdout) THEN prev
    ELSE maxent_count(prev,
             maxent_is_true(iti.candidates, maxent_itc_max(iti.candidates, w).at))

\* trainer_maxent::holdout_evaluation: the set of outcomes of the loop.
RECURSIVE maxent_tally(_, _, _)
maxent_tally(insts, w, holdout) ==
    IF insts = <<>> THEN {[num_correct |-> 0, num_total |-> 0, fault |-> FALSE]}
    ELSE maxent_classify(maxent_tally(SubSeq(insts, 1, Len(insts) - 1), w, holdout),
                         insts[Len(insts)], w, holdout)

\* double accuracy = 0.; if (0 < num_total) accuracy = num_correct / (double)num_total;
maxent_accuracy(num_correct, num_total) ==
    IF 0 < num_total THEN (num_correct * Scale) \div num_total ELSE 0

maxent_holdout_evaluation(d, w, holdout) ==
    { [NoTally EXCEPT !.ran = TRUE, !.num_correct = t.num_correct,
                      !.num_total = t.num_total,
                      !.accuracy = maxent_accuracy(t.num_correct, t.num_total),
                      !.fault = t.fault] :
        t \in maxent_tally(d.instances, w, holdout) }

\* acc.set(label == idx_max);  matrix(label, idx_max)++;
multi_count(acc, label, idx_max) ==
    [matrix      |-> [acc.matrix EXCEPT ![<<label, idx_max>>] = @ + 1],
     num_correct |-> acc.num_correct + (IF label = idx_max THEN 1 ELSE 0),
     num_total   |-> acc.num_total + 1]

\* One pass of the loop of trainer_lbfgs_multi::holdout_evaluation.
multi_classify_holdout(acc, iti, w, L, holdout) ==
    IF ~holdout_selected(iti, holdout) THEN acc
    ELSE multi_count(acc, iti.label, argmax(label_scores(w, iti.features, L)))

\* trainer_lbfgs_multi::holdout_evaluation: the loop over the instances.
RECURSIVE multi_tally(_, _, _, _)
multi_tally(insts, w, L, holdout) ==
    IF insts = <<>> THEN [matrix |-> EmptyMatrix, num_correct |-> 0, num_total |-> 0]
    ELSE multi_classify_holdout(
             multi_tally(SubSeq(insts, 1, Len(insts) - 1), w, L, holdout),
             insts[Len(insts)], w, L, holdout)

multi_report(t) ==
    [NoTally EXCEPT !.ran = TRUE, !.matrix = t.matrix,
                    !.num_correct = t.num_correct, !.num_total = t.num_total]

multi_holdout_evaluation(d, w, holdout) ==
    multi_report(multi_tally(d.instances, w, num_labels(d), holdout))

\* The outcomes of the holdout evaluation of the trainer at hand.
holdout_evaluation(t, d, w, holdout) ==
    CASE t = "logress" -> {logress_holdout_evaluation(d, w, holdout)}
      [] t = "maxent"  -> maxent_holdout_evaluation(d, w, holdout)
      [] t = "multi"   -> {multi_holdout_evaluation(d, w, holdout)}

----------------------------------------------------------------------------
(* Construction and configuration. *)

Trainers == {"logress", "maxent", "multi"}

\* INT_MAX, the default of lbfgs.max_iterations.
IntMax == 2147483647

\* The default m_maxiter of trainer_maxent.
DefaultMaxiter == 1000

\* The default of regularization.sigma.
DefaultSigma == 5

DataOf(t) ==
    CASE t = "logress" -> DataSets(BinaryInstances)
      [] t = "maxent"  -> DataSets(MaxentInstances)
      [] t = "multi"   -> MultiDataSets

\* The number K of features train() sizes the arrays with.
NumFeaturesOf(t, d) == IF t = "multi" THEN multi_num_features(d) ELSE num_features(d)

\* The options of a program that uses the trainers as a library, without a
\* frontend, and the absence of an exception.
NoOption == [frontend |-> "library", algorithm |-> "", group |-> 0,
             generate_bias |-> FALSE]

NoException == [what |-> "none"]

\* The values of a member of type value_type after construction: the one the
\* constructor assigns, or, for a member it leaves uninitialized
\* (trainer_logress: m_c1, m_c2), any value.
UninitializedOr(uninitialized, v) == IF uninitialized THEN {0, Scale} ELSE {v}

\* The state after the constructor (trainer_logress(), trainer_maxent(),
\* trainer_lbfgs_multi()), each of which ends with clear().
Init ==
    /\ trainer \in Trainers
    /\ data \in DataOf(trainer)
    /\ pc = "idle"
    /\ m_weights = <<>>
    /\ m_oexps = <<>>
    /\ m_mexps = <<>>
    /\ m_scores = <<>>
    /\ m_holdout = -1
    /\ m_regularization = IF trainer = "maxent" THEN "" ELSE "L2"
    /\ m_regularization_sigma = DefaultSigma
    /\ m_regularization_start = 0
    /\ m_lbfgs_linesearch = "MoreThuente"
    /\ m_maxiter = IF trainer = "maxent" THEN DefaultMaxiter ELSE IntMax
    /\ m_c1 \in UninitializedOr(trainer = "logress", 0)
    /\ m_c2 \in UninitializedOr(trainer = "logress", 0)
    /\ m_data = FALSE
    /\ m_os = FALSE
    /\ arg = [holdout |-> -1, false_analysis |-> FALSE]
    /\ solver = [called |-> FALSE, status |-> 0]
    /\ g = <<>>
    /\ fx = 0
    /\ k = 0
    /\ stop = 0
    /\ ret = 0
    /\ tally = NoTally
    /\ opt = NoOption
    /\ lines = 0
    /\ thrown = NoException

\* The values the caller gives the parameters of the parameter table.
Regularizations == {"L1", "l1", "L2", "l2", ""}

\* The kinds the caller changes to between two runs.
Reconfigurations == {"L1", "L2"}

Sigmas == {1, DefaultSigma}

MaxIterations == {1, IntMax}

\* params().set(name, value) outside a run: the table writes the member
\* bound to the name by m_params.init().  The caller configures the
\* regularization kind of either trainer, and sigma and the maximum number
\* of iterations of trainer_logress, before the first run, and the
\* regularization kind of trainer_logress between two runs as well; the other
\* parameters keep their defaults.
params_set ==
    /\ trainer \in {"logress", "multi"}
    /\ pc \in {"idle", "done"}
    /\ \/ \E v \in Regularizations :
            /\ pc = "done" => trainer = "logress" /\ v \in Reconfigurations
            /\ m_regularization' = v
            /\ UNCHANGED <<m_regularization_sigma, m_maxiter>>
       \/ \E v \in Sigmas :
            /\ pc = "idle"
            /\ trainer = "logress"
            /\ m_regularization_sigma' = v
            /\ UNCHANGED <<m_regularization, m_maxiter>>
       \/ \E v \in MaxIterations :
            /\ pc = "idle"
            /\ trainer = "logress"
            /\ m_maxiter' = v
            /\ UNCHANGED <<m_regularization, m_regularization_sigma>>
    /\ UNCHANGED <<opt, lines, thrown, trainer, data, pc, m_weights, m_lbfgs_linesearch, m_oexps, m_mexps, m_scores,
                   m_holdout, m_regularization_start, m_c1, m_c2, m_data, m_os,
                   arg, solver, g, fx, k, stop, ret, tally>>

\* std::atoi of a decimal string, the string given by its fixed-point value
\* ("0.5" is Scale \div 2): the digits before the point.
atoi(str) == Sign(str) * (Abs(str) \div Scale)

\* m_c1 = (d <= 0.) ? 0. : 1.0 / d  with d = std::atoi(str)
maxent_constant(str) ==
    IF atoi(str) <= 0 THEN 0 ELSE Scale \div atoi(str)

\* The parameter strings given to trainer_maxent::set: a name and the decimal
\* number after the '='.
MaxentParams ==
    { [name |-> n, value |-> v] :
        n \in {"regularization.l1=", "regularization.l2=", "lbfgs.maxiter="},
        v \in {Scale \div 2, Scale} }

\* trainer_maxent::set(param), called before training.  (The branch of
\* "lbfgs.epsilon=" writes m_epsilon, which only the solver reads.)
maxent_set ==
    /\ trainer = "maxent"
    /\ pc = "idle"
    /\ \E param \in MaxentParams :
          CASE param.name = "regularization.l1=" ->
                  /\ m_c1' = maxent_constant(param.value)
                  /\ UNCHANGED <<m_c2, m_maxiter>>
            [] param.name = "regularization.l2=" ->
                  /\ m_c2' = maxent_constant(param.value)
                  /\ UNCHANGED <<m_c1, m_maxiter>>
            [] param.name = "lbfgs.maxiter=" ->
                  /\ m_maxiter' = atoi(param.value)
                  /\ UNCHANGED <<m_c1, m_c2>>
    /\ UNCHANGED <<opt, lines, thrown, trainer, data, pc, m_weights, m_oexps, m_mexps, m_scores,
                   m_holdout, m_regularization, m_regularization_sigma,
                   m_regularization_start, m_lbfgs_linesearch, m_data, m_os,
                   arg, solver, g, fx, k, stop, ret, tally>>

----------------------------------------------------------------------------
(* train(): from the call to the call of the solver. *)

IsL1(reg) == reg = "L1" \/ reg = "l1"

IsL2(reg) == reg = "L2" \/ reg = "l2"

\* m_c1 as trainer_logress::train sets it.
logress_c1(reg, sigma) == IF IsL1(reg) THEN Scale \div sigma ELSE 0

\* A train() that sets c2 for either kind of regularization (the variant
\* without the reset of c2 in the L1 branch).
logress_c2_either(reg, sigma) ==
    IF IsL1(reg) \/ IsL2(reg) THEN Scale \div (sigma * sigma) ELSE 0

\* m_c2 as trainer_logress::train sets it.
logress_c2(reg, sigma) ==
    IF IsL1(reg) THEN 0
    ELSE IF IsL2(reg) THEN Scale \div (sigma * sigma)
    ELSE 0

\* m_lbfgs_linesearch as trainer_logress::train leaves it.
logress_linesearch(reg, linesearch) ==
    IF IsL1(reg) THEN "Backtracking" ELSE linesearch

\* The group the observation loop of trainer_lbfgs_multi::train compares
\* with: the member m_holdout, which lbfgs_solve sets only afterwards.
multi_observation_holdout(member, argument) == member

\* A train() that allocates the weight array only when there is none (the
\* variant that keeps the weights of an earlier run).
initialize_weights_once(w, K) == IF w = <<>> THEN Zeros(K) ELSE w

\* The weight array train() allocates: new double[K], every cell set to 0.
initialize_weights(w, K) == Zeros(K)

\* trainer_logress::train(data, os, holdout, false_analysis) from the entry to
\* the report of the parameters: weights, holdout group, constants, start.
logress_train(holdout) ==
    LET K == num_features(data)
    IN  /\ m_weights' = initialize_weights(m_weights, K)
        /\ m_holdout' = holdout
        /\ m_c1' = logress_c1(m_regularization, m_regularization_sigma)
        /\ m_c2' = logress_c2(m_regularization, m_regularization_sigma)
        /\ m_lbfgs_linesearch' = logress_linesearch(m_regularization, m_lbfgs_linesearch)
        /\ m_regularization_start' = data.user_feature_start
        /\ UNCHANGED <<m_oexps, m_mexps, m_scores>>

\* trainer_maxent::train(data, os, holdout) from the entry to the end of the
\* loop over the observation expectations.
maxent_train(holdout) ==
    \E K \in {num_features(data)} :
    \E obs \in {maxent_observations(data.instances, K, holdout)} :
        /\ m_oexps' = obs.oexps
        /\ m_mexps' = Zeros(K)
        /\ m_weights' = initialize_weights(m_weights, K)
        /\ m_holdout' = holdout
        /\ UNCHANGED <<m_scores, m_c1, m_c2, m_lbfgs_linesearch,
                       m_regularization_start>>

\* trainer_lbfgs_multi::train(data, os, holdout) from the entry to the end of
\* the loop over the observation expectations.
multi_train(holdout) ==
    LET K == multi_num_features(data)
    IN  /\ m_weights' = initialize_weights(m_weights, K)
        /\ m_oexps' = multi_observations(data.instances, K, num_labels(data),
                          multi_observation_holdout(m_holdout, holdout))
        /\ UNCHANGED <<m_mexps, m_scores, m_holdout, m_c1, m_c2,
                       m_lbfgs_linesearch, m_regularization_start>>

\* A call of train(): the caller gives the holdout group; train() allocates
\* and fills its arrays.
train ==
    /\ pc \in {"idle", "done"}
    /\ \E holdout \in Holdouts, false_analysis \in BOOLEAN :
          /\ false_analysis => trainer = "logress"
          /\ arg' = [holdout |-> holdout, false_analysis |-> false_analysis]
          /\ CASE trainer = "logress" -> logress_train(holdout)
               [] trainer = "maxent"  -> maxent_train(holdout)
               [] trainer = "multi"   -> multi_train(holdout)
    /\ pc' = "allocated"
    /\ ret' = 0
    /\ tally' = NoTally
    /\ UNCHANGED <<opt, lines, thrown, trainer, data, m_regularization, m_regularization_sigma,
                   m_maxiter, m_data, m_os, solver, g, fx, k, stop>>

\* trainer_logress::train: m_os = &os; m_data = &data; lbfgs_solve(K, m_weights,
\* NULL, ..., m_lbfgs_maxiter, m_lbfgs_linesearch, ..., m_c1, start).
logress_lbfgs_solve ==
    /\ m_os' = TRUE
    /\ m_data' = TRUE
    /\ solver' = [called |-> TRUE, status |-> 0, n |-> num_features(data),
                  x |-> m_weights, maxiter |-> m_maxiter,
                  linesearch |-> m_lbfgs_linesearch,
                  c1 |-> m_c1, l1_end |-> m_regularization_start]
    /\ UNCHANGED <<m_scores, m_holdout, m_c1, m_c2, m_regularization_start>>

\* trainer_maxent::train: m_os = &os; m_data = &data; m_scores = new double[M];
\* lbfgs_solve(K, m_weights, NULL, m_epsilon, m_c1).
maxent_lbfgs_solve ==
    \E K \in {num_features(data)} :
    \E obs \in {maxent_observations(data.instances, K, m_holdout)} :
        /\ m_os' = TRUE
        /\ m_data' = TRUE
        /\ m_scores' = Zeros(obs.M)
        /\ solver' = [called |-> TRUE, status |-> 0, n |-> K, x |-> m_weights,
                      c1 |-> m_c1]
        /\ UNCHANGED <<m_holdout, m_c1, m_c2, m_regularization_start>>

\* trainer_lbfgs_multi::train: m_data = &data; lbfgs_solve(K, os, holdout,
\* start), with the part of lbfgs_base::lbfgs_solve that sets the members the
\* callbacks read.
multi_lbfgs_solve ==
    /\ m_data' = TRUE
    /\ m_c1' = logress_c1(m_regularization, m_regularization_sigma)
    /\ m_c2' = logress_c2(m_regularization, m_regularization_sigma)
    /\ m_regularization_start' = data.user_feature_start
    /\ m_holdout' = arg.holdout
    /\ m_os' = TRUE
    /\ solver' = [called |-> TRUE, status |-> 0, n |-> multi_num_features(data),
                  x |-> m_weights, maxiter |-> m_maxiter,
                  linesearch |-> m_lbfgs_linesearch,
                  c1 |-> m_c1', l1_end |-> m_regularization_start']
    /\ UNCHANGED m_scores

\* train() binds the log sink and the data set and calls the solver, which
\* starts with a fresh gradient buffer.
lbfgs_solve ==
    /\ pc = "allocated"
    /\ CASE trainer = "logress" -> logress_lbfgs_solve
         [] trainer = "maxent"  -> maxent_lbfgs_solve
         [] trainer = "multi"   -> multi_lbfgs_solve
    /\ pc' = "solving"
    /\ g' = <<>>
    /\ fx' = 0
    /\ k' = 0
    /\ stop' = 0
    /\ UNCHANGED <<opt, lines, thrown, trainer, data, m_weights, m_oexps, m_mexps,
                   m_regularization, m_regularization_sigma, m_lbfgs_linesearch,
                   m_maxiter, arg, ret, tally>>

----------------------------------------------------------------------------
(* The solver and its two callbacks. *)

\* The weight vectors the solver writes into the weight array (K = 2).
WeightVectors ==
    { <<0, 0>>, <<Scale, 0>>, <<Scale, Scale>>,
      <<100 * Scale, -100 * Scale>>, <<-100 * Scale, Scale>> }

\* The status codes lbfgs_solve returns: 0 is convergence.
SolverStatuses == {0, -1}

\* The value trainer_logress::lbfgs_progress returns for iteration k.
logress_lbfgs_progress(maxiter, iter) == 0

\* The value trainer_maxent::lbfgs_progress returns for iteration k.
\* A callback that already stops at k = maximum (the off-by-one variant).
maxent_lbfgs_progress_le(maxiter, iter) == IF maxiter <= iter THEN 1 ELSE 0

maxent_lbfgs_progress(maxiter, iter) == IF maxiter < iter THEN 1 ELSE 0

\* The value the progress callback of lbfgs_base returns for iteration k.
multi_lbfgs_progress(maxiter, iter) == IF maxiter < iter THEN 1 ELSE 0

\* lbfgs_evaluate of the trainer at hand.
evaluate(t, d, x, n, holdout, c1, c2, start, oexps, scores) ==
    CASE t = "logress" -> logress_lbfgs_evaluate(d, x, n, holdout, c1, c2, start)
      [] t = "maxent"  -> maxent_lbfgs_evaluate(d, x, n, holdout, c1, c2, start,
                                                oexps, scores)
      [] t = "multi"   -> multi_lbfgs_evaluate(d, x, n, holdout, c1, c2, start, oexps)

\* The weight array after lbfgs_evaluate(x, g, n, step): x is const and the
\* method assigns no cell of m_weights, so it holds what the solver wrote.
lbfgs_evaluate_weights(x) == x

\* A progress callback that clears the weights (the variant that writes the
\* array it reports on).
lbfgs_progress_weights_cleared(w) == Zeros(Len(w))

\* The weight array after lbfgs_progress(x, g, fx, ...) and the
\* holdout_evaluation() it calls: both only read the weights.
lbfgs_progress_weights(w) == w

\* The solver updates the weight array in place and calls lbfgs_evaluate on it.
lbfgs_evaluate ==
    /\ pc = "solving"
    /\ stop = 0
    /\ \E x \in WeightVectors :
          /\ m_weights' = lbfgs_evaluate_weights(x)
          /\ solver' = [solver EXCEPT !.x = x]
          /\ \E r \in {evaluate(trainer, data, x, solver.n, m_holdout, m_c1, m_c2,
                                 m_regularization_start, m_oexps, m_scores)} :
                /\ g' = r.g
                /\ fx' = r.loss
                /\ IF trainer = "maxent"
                   THEN m_mexps' = r.mexps /\ m_scores' = r.scores
                   ELSE UNCHANGED <<m_mexps, m_scores>>
    /\ UNCHANGED <<opt, lines, thrown, trainer, data, pc, m_oexps, m_holdout, m_regularization,
                   m_regularization_sigma, m_regularization_start,
                   m_lbfgs_linesearch, m_maxiter, m_c1, m_c2, m_data, m_os,
                   arg, k, stop, ret, tally>>

\* The solver ends an iteration and calls lbfgs_progress with its number.
lbfgs_progress ==
    /\ pc = "solving"
    /\ stop = 0
    /\ g # <<>>
    /\ k < MaxIter
    /\ k' = k + 1
    /\ stop' = CASE trainer = "logress" -> logress_lbfgs_progress(m_maxiter, k')
                 [] trainer = "maxent"  -> maxent_lbfgs_progress(m_maxiter, k')
                 [] trainer = "multi"   -> multi_lbfgs_progress(m_maxiter, k')
    /\ \E t \in (IF m_holdout # -1
                 THEN holdout_evaluation(trainer, data, m_weights, m_holdout)
                 ELSE {tally}) :
          /\ tally' = t
          /\ pc' = IF t.fault THEN "fault" ELSE "solving"
    /\ m_weights' = lbfgs_progress_weights(m_weights)
    /\ UNCHANGED <<opt, lines, thrown, trainer, data, m_oexps, m_mexps, m_scores,
                   m_holdout, m_regularization, m_regularization_sigma,
                   m_regularization_start, m_lbfgs_linesearch, m_maxiter, m_c1,
                   m_c2, m_data, m_os, arg, solver, g, fx, ret>>

\* A train() that ends every run of trainer_logress with the evaluation.
final_evaluation_always(t, holdout, false_analysis) == t = "logress"

\* Whether train() runs the final holdout evaluation after the status report.
final_evaluation(t, holdout, false_analysis) ==
    t = "logress" /\ (holdout # -1 \/ false_analysis)

\* The status train() returns for the status the solver produced.
train_status(status) == status

\* A train() that drops the weights of a failed run (the variant that keeps
\* them only on success).
train_weights_on_success(w, status) == IF status = 0 THEN w ELSE <<>>

\* The weight array train() leaves for the status the solver produced.
train_weights(w, status) == w

\* lbfgs_solve returns and train() reports its status (lbfgs_output_status).
\* A solver stopped by the progress callback does not report convergence.  The
\* solver releases its gradient buffer and iteration state when it returns.
lbfgs_output_status ==
    /\ pc = "solving"
    /\ \E status \in SolverStatuses :
          /\ stop # 0 => status # 0
          /\ solver' = [solver EXCEPT !.called = FALSE, !.status = status]
          /\ ret' = train_status(status)
          /\ m_weights' = train_weights(m_weights, status)
    /\ pc' = "reported"
    /\ g' = <<>>
    /\ fx' = 0
    /\ k' = 0
    /\ stop' = 0
    /\ UNCHANGED <<opt, lines, thrown, trainer, data, m_oexps, m_mexps, m_scores, m_holdout,
                   m_regularization, m_regularization_sigma,
                   m_regularization_start, m_lbfgs_linesearch, m_maxiter, m_c1,
                   m_c2, m_data, m_os, arg, tally>>

\* train() finishes after the status report: it runs the final holdout
\* evaluation (trainer_logress) and returns the status.
train_return ==
    /\ pc = "reported"
    /\ \E t \in (IF final_evaluation(trainer, arg.holdout, arg.false_analysis)
                 THEN holdout_evaluation(trainer, data, m_weights, m_holdout)
                 ELSE {tally}) :
          /\ tally' = t
          /\ pc' = IF t.fault THEN "fault" ELSE "done"
    /\ UNCHANGED <<opt, lines, thrown, trainer, data, m_weights, m_oexps, m_mexps,
                   m_scores, m_holdout, m_regularization, m_regularization_sigma,
                   m_regularization_start, m_lbfgs_linesearch, m_maxiter, m_c1,
                   m_c2, m_data, m_os, arg, solver, g, fx, k, stop, ret>>

Next ==
    \/ params_set
    \/ maxent_set
    \/ train
    \/ lbfgs_solve
    \/ lbfgs_evaluate
    \/ lbfgs_progress
    \/ lbfgs_output_status
    \/ train_return

Spec == Init /\ [][Next]_vars

----------------------------------------------------------------------------
(* The frontends: option handling and the readers of the data sets. *)

\* The number of lines read_stream reads before the stream ends.
MaxLines == 3

\* The symbol dictionary (quark): a sequence of names, the id of a name being
\* its position minus one.
quark_size(q) == Len(q)

quark_has(q, name) == \E i \in 1..Len(q) : q[i] = name

\* A dictionary that appends every name it is given.
quark_intern_append(q, name) == Append(q, name)

\* The dictionary after operator()(name): a new name is appended.
quark_intern(q, name) == IF quark_has(q, name) THEN q ELSE Append(q, name)

\* The id operator()(name) returns.
quark_id(q, name) ==
    (CHOOSE i \in 1..Len(quark_intern(q, name)) :
        /\ quark_intern(q, name)[i] = name
        /\ \A j \in 1..(i - 1) : quark_intern(q, name)[j] # name) - 1

\* to_item(id)
to_item(q, id) == q[id + 1]

\* The dictionary after interning the names of a sequence in order.
RECURSIVE quark_intern_all(_, _)
quark_intern_all(q, names) ==
    IF names = <<>> THEN q
    ELSE quark_intern(quark_intern_all(q, SubSeq(names, 1, Len(names) - 1)),
                      names[Len(names)])

\* The frontends of src/frontend and the algorithm names given to them.
Frontends == {"train/multi", "train/attribute", "multi", "multi_select"}

Algorithms == {"maxent", "logress"}

\* The options of a run; generate_bias is set only for the frontends that
\* read it.
Options ==
    { o \in [frontend : Frontends, algorithm : Algorithms, group : Groups,
             generate_bias : BOOLEAN] :
        o.generate_bias => o.frontend \in {"train/multi", "multi"} }

\* The lines of an input stream.  A line is empty, a comment, a directive
\* (begin and end of instance in the spelling of the reader, @unregularize
\* with names, @negative) or a record: a first field (the class or label,
\* "" when the line starts with a tab) and feature names, each of value 1.
InputLines ==
    { [head |-> h, class |-> h, names |-> <<>>] :
        h \in {"", "#", "@boi", "@eoi", "@negative"} }
    \cup { [head |-> "@unregularize", class |-> "@unregularize", names |-> <<"u">>] }
    \cup { [head |-> "record", class |-> "T", names |-> <<"a">>],
           [head |-> "record", class |-> "F", names |-> <<"b", "a">>],
           [head |-> "record", class |-> "-", names |-> <<"a">>],
           [head |-> "record", class |-> "/", names |-> <<"a">>] }

\* Whether the first field of a record is empty (written "/" above).
empty_label(line) == line.class = "/"

\* A data set without instances and with empty dictionaries.
EmptyData ==
    [instances |-> <<>>, features |-> <<>>, labels |-> <<>>, attributes |-> <<>>,
     user_feature_start |-> 0, user_feature_end |-> 0, positive_labels |-> <<>>]

\* The group of an instance that new_element() has created.
DefaultGroup == 0

invalid_data(message, n) == [what |-> "invalid_data", message |-> message, lines |-> n]

invalid_algorithm(name) == [what |-> "invalid_algorithm", name |-> name]

\* The outcome of a reader step: the data set and the exception thrown.
Read(d, e) == [data |-> d, thrown |-> e, fault |-> FALSE]

\* cand.append(features(name), value) for the names of a line, in order: the
\* feature vector of the candidate.
RECURSIVE feature_vector(_, _)
feature_vector(q, names) ==
    IF names = <<>> THEN <<>>
    ELSE Append(feature_vector(q, SubSeq(names, 1, Len(names) - 1)),
                <<quark_id(quark_intern_all(q, names), names[Len(names)]), Scale>>)

\* The data set with a candidate appended to the last instance.
append_candidate(d, cand) ==
    [d EXCEPT !.instances[Len(d.instances)].candidates = Append(@, cand)]

\* read_line of train/multi.cpp on data.back(): empty label and class test,
\* then the candidate with its truth, label and features.
train_multi_read_line(d, line, n) ==
    IF empty_label(line) THEN Read(d, invalid_data("an empty label found", n))
    ELSE IF line.class \notin {"T", "F"}
    THEN Read(d, invalid_data("a class label must begins with either 'T' or 'F'", n))
    ELSE Read([append_candidate(d,
                   [truth    |-> line.class = "T",
                    label    |-> quark_id(d.labels, line.class),
                    features |-> feature_vector(d.features, line.names)])
                 EXCEPT !.labels = quark_intern(d.labels, line.class),
                        !.features = quark_intern_all(d.features, line.names)],
              NoException)

\* read_line of multi.cpp on data.back(): the truth is false only for a
\* class that starts with '-'.
multi_read_line(d, line, n) ==
    IF empty_label(line) THEN Read(d, invalid_data("an empty label found", n))
    ELSE Read([append_candidate(d,
                   [truth    |-> line.class # "-",
                    label    |-> quark_id(d.labels, line.class),
                    features |-> feature_vector(d.features, line.names)])
                 EXCEPT !.labels = quark_intern(d.labels, line.class),
                        !.features = quark_intern_all(d.features, line.names)],
              NoException)

\* The data set with a new instance at the end (data.new_element()).
new_element(d, inst) == [d EXCEPT !.instances = Append(@, inst)]

\* read_line of train/attribute.cpp on the instance data.new_element() has
\* just created.
attribute_read_line(d, line, n) ==
    IF empty_label(line) THEN Read(d, invalid_data("an empty label found", n))
    ELSE Read([d EXCEPT !.instances[Len(d.instances)].label =
                            quark_id(d.labels, line.class),
                        !.instances[Len(d.instances)].attributes =
                            feature_vector(d.features, line.names),
                        !.labels = quark_intern(d.labels, line.class),
                        !.features = quark_intern_all(d.features, line.names)],
              NoException)

\* read_line of multi_select.cpp on the instance read_stream has created.
select_read_line(d, line, n) ==
    IF empty_label(line) THEN Read(d, invalid_data("an empty label found", n))
    ELSE Read([d EXCEPT !.instances[Len(d.instances)].label =
                            quark_id(d.labels, line.class),
                        !.instances[Len(d.instances)].candidates =
                            <<quark_id(d.labels, line.class)>>,
                        !.instances[Len(d.instances)].attributes =
                            feature_vector(d.attributes, line.names),
                        !.labels = quark_intern(d.labels, line.class),
                        !.attributes = quark_intern_all(d.attributes, line.names)],
              NoException)

\* A record read into data.back() of a data set without instances: the
\* reference is invalid, the write is lost or the program faults.
back_of_empty(d) == {Read(d, NoException), [Read(d, NoException) EXCEPT !.fault = TRUE]}

\* One pass of the loop of read_stream of train/multi.cpp.
train_multi_read_stream(d, line, n, group) ==
    IF line.head \in {"", "#"} THEN {Read(d, NoException)}
    ELSE IF line.head = "@unregularize" THEN
        IF 0 < quark_size(d.features)
        THEN {Read(d, invalid_data("Declarative @unregularize must precede an instance", n))}
        ELSE {Read([d EXCEPT !.features = quark_intern_all(@, line.names),
                             !.user_feature_start =
                                 quark_size(quark_intern_all(d.features, line.names))],
                   NoException)}
    ELSE IF line.head = "@boi"
    THEN {Read(new_element(d, [group |-> group, candidates |-> <<>>]), NoException)}
    ELSE IF line.head \in {"@eoi", "@negative"} THEN {Read(d, NoException)}
    ELSE IF d.instances = <<>> /\ ~empty_label(line) /\ line.class \in {"T", "F"}
    THEN back_of_empty(d)
    ELSE {train_multi_read_line(d, line, n)}

\* One pass of the loop of read_stream of multi.cpp; a line that is neither
\* @BOI nor @EOI is a record, whose first field is its label.
multi_read_stream(d, line, n, group) ==
    IF line.head \in {"", "#"} THEN {Read(d, NoException)}
    ELSE IF line.head = "@boi"
    THEN {Read(new_element(d, [group |-> DefaultGroup, candidates |-> <<>>]),
               NoException)}
    ELSE IF line.head = "@eoi" THEN {Read(d, NoException)}
    ELSE IF d.instances = <<>> /\ ~empty_label(line) THEN back_of_empty(d)
    ELSE {multi_read_line(d, line, n)}

\* One pass of the loop of read_stream of train/attribute.cpp; every line that
\* is neither empty nor a comment is a record.
attribute_read_stream(d, line, n, group) ==
    IF line.head \in {"", "#"} THEN {Read(d, NoException)}
    ELSE {attribute_read_line(
              new_element(d, [group |-> DefaultGroup, label |-> 0,
                              attributes |-> <<>>]), line, n)}

\* One pass of the loop of read_stream of multi_select.cpp.
select_read_stream(d, line, n, group) ==
    IF line.head \in {"", "#"} THEN {Read(d, NoException)}
    ELSE {select_read_line(
              new_element(d, [group |-> group, label |-> 0, candidates |-> <<>>,
                              attributes |-> <<>>]), line, n)}

\* A bias loop that gives the candidate the next id without interning the
\* name.
RECURSIVE bias_candidates_uninterned(_, _, _)
bias_candidates_uninterned(d, i, c) ==
    IF c = 0 THEN d
    ELSE LET b == bias_candidates_uninterned(d, i, c - 1)
         IN  [b EXCEPT !.instances[i].candidates[c].features =
                           Append(@, <<quark_size(b.features), Scale>>)]

\* The bias feature of one candidate: "@bias@" + the name of its label.
bias_name(d, cand) == "@bias@" \o to_item(d.labels, cand.label)

\* The loop that appends the bias feature to every candidate of an instance.
RECURSIVE bias_candidates(_, _, _)
bias_candidates(d, i, c) ==
    IF c = 0 THEN d
    ELSE LET b    == bias_candidates(d, i, c - 1)
             name == bias_name(b, b.instances[i].candidates[c])
         IN  [b EXCEPT !.instances[i].candidates[c].features =
                           Append(@, <<quark_id(b.features, name), Scale>>),
                       !.features = quark_intern(b.features, name)]

RECURSIVE bias_instances(_, _)
bias_instances(d, i) ==
    IF i = 0 THEN d
    ELSE LET b == bias_instances(d, i - 1)
         IN  bias_candidates(b, i, Len(b.instances[i].candidates))

generate_bias(d, on) == IF on THEN bias_instances(d, Len(d.instances)) ELSE d

\* read_stream after the loop.
train_multi_end(d, bias) ==
    generate_bias([d EXCEPT !.labels = quark_intern(d.labels, "TP"),
                            !.positive_labels = Append(@, quark_id(d.labels, "TP"))],
                  bias)

multi_end(d, bias) ==
    generate_bias([d EXCEPT !.user_feature_end = quark_size(d.features)], bias)

\* The state in which a frontend starts: no trainer, an empty data set.
FrontendInit ==
    /\ opt \in Options
    /\ pc = "start"
    /\ trainer = "none"
    /\ data = EmptyData
    /\ lines = 0
    /\ thrown = NoException
    /\ m_weights = <<>>
    /\ m_oexps = <<>>
    /\ m_mexps = <<>>
    /\ m_scores = <<>>
    /\ m_holdout = -1
    /\ m_regularization = ""
    /\ m_regularization_sigma = DefaultSigma
    /\ m_regularization_start = 0
    /\ m_lbfgs_linesearch = "MoreThuente"
    /\ m_maxiter = DefaultMaxiter
    /\ m_c1 = 0
    /\ m_c2 = 0
    /\ m_data = FALSE
    /\ m_os = FALSE
    /\ arg = [holdout |-> -1, false_analysis |-> FALSE]
    /\ solver = [called |-> FALSE, status |-> 0]
    /\ g = <<>>
    /\ fx = 0
    /\ k = 0
    /\ stop = 0
    /\ ret = 0
    /\ tally = NoTally

\* What the frontend leaves alone: the members of the trainer.
trainer_members == <<m_weights, m_oexps, m_mexps, m_scores, m_holdout,
                     m_regularization, m_regularization_sigma,
                     m_regularization_start, m_lbfgs_linesearch, m_maxiter,
                     m_c1, m_c2, m_data, m_os, arg, solver, g, fx, k, stop, tally>>

\* A frontend that takes every algorithm name.
known_algorithm_any(frontend, algorithm) == TRUE

\* Whether the frontend knows the algorithm: multi_train, attribute_train and
\* multi_usage, attribute_usage compare it with "maxent"; selector_train
\* does not look at it.
known_algorithm(frontend, algorithm) ==
    frontend = "multi_select" \/ algorithm = "maxent"

\* multi_train(opt), attribute_train(opt), selector_train(opt): the call of the
\* train template for a known algorithm, which starts to read the stream, and
\* invalid_algorithm for any other.
frontend_train ==
    /\ pc = "start"
    /\ IF known_algorithm(opt.frontend, opt.algorithm)
       THEN pc' = "reading" /\ thrown' = thrown
       ELSE pc' = "thrown" /\ thrown' = invalid_algorithm(opt.algorithm)
    /\ UNCHANGED <<opt, lines, trainer, data, ret>>
    /\ UNCHANGED trainer_members

\* multi_usage(opt), attribute_usage(opt): for "maxent" a trainer is
\* constructed to print its parameters and the result is true.
frontend_usage ==
    /\ pc = "start"
    /\ opt.frontend # "multi_select"
    /\ IF opt.algorithm = "maxent"
       THEN trainer' = "maxent" /\ ret' = TRUE
       ELSE trainer' = trainer /\ ret' = FALSE
    /\ pc' = "usage"
    /\ UNCHANGED <<opt, lines, thrown, data>>
    /\ UNCHANGED trainer_members

\* One pass of the loop of read_stream on the line std::getline has read.
read_stream_line(d, line, n, o) ==
    CASE o.frontend = "train/multi"     -> train_multi_read_stream(d, line, n, o.group)
      [] o.frontend = "multi"           -> multi_read_stream(d, line, n, o.group)
      [] o.frontend = "train/attribute" -> attribute_read_stream(d, line, n, o.group)
      [] o.frontend = "multi_select"    -> select_read_stream(d, line, n, o.group)

read_stream ==
    /\ pc = "reading"
    /\ lines < MaxLines
    /\ lines' = lines + 1
    /\ \E line \in InputLines :
       \E r \in read_stream_line(data, line, lines', opt) :
          /\ data' = r.data
          /\ thrown' = r.thrown
          /\ pc' = IF r.fault THEN "fault"
                   ELSE IF r.thrown # NoException THEN "thrown"
                   ELSE "reading"
    /\ UNCHANGED <<opt, trainer, ret>>
    /\ UNCHANGED trainer_members

\* The stream ends: is.eof() leaves the loop, and read_stream finishes.
read_stream_eof ==
    /\ pc = "reading"
    /\ data' = CASE opt.frontend = "train/multi" ->
                        train_multi_end(data, opt.generate_bias)
                 [] opt.frontend = "multi" -> multi_end(data, opt.generate_bias)
                 [] OTHER -> data
    /\ pc' = "read"
    /\ UNCHANGED <<opt, lines, thrown, trainer, ret>>
    /\ UNCHANGED trainer_members

\* The train template constructs the trainer and hands it the data set.
construct_trainer ==
    /\ pc = "read"
    /\ trainer' = "maxent"
    /\ pc' = "training"
    /\ UNCHANGED <<opt, lines, thrown, data, ret>>
    /\ UNCHANGED trainer_members

\* Whether the instances of the data set of the frontend are sequences of
\* candidates, which the loops of trainer_maxent walk.
candidate_data(frontend) == frontend \in {"train/multi", "multi"}

\* The train template calls tr.train(data, os, holdout) on the data read:
\* the trainer allocates and fills its arrays.
trainer_train ==
    /\ pc = "training"
    /\ candidate_data(opt.frontend)
    /\ \E holdout \in Holdouts :
          /\ arg' = [holdout |-> holdout, false_analysis |-> FALSE]
          /\ maxent_train(holdout)
    /\ pc' = "allocated"
    /\ UNCHANGED <<opt, lines, thrown, trainer, data, ret, m_regularization,
                   m_regularization_sigma, m_maxiter, m_data, m_os, solver,
                   g, fx, k, stop, tally>>

\* The trainer binds the data read, allocates the score buffer and calls the
\* solver.
trainer_lbfgs_solve ==
    /\ pc = "allocated"
    /\ maxent_lbfgs_solve
    /\ pc' = "solving"
    /\ UNCHANGED <<opt, lines, thrown, trainer, data, ret, m_weights, m_oexps,
                   m_mexps, m_regularization, m_regularization_sigma,
                   m_lbfgs_linesearch, m_maxiter, arg, g, fx, k, stop, tally>>

FrontendNext ==
    \/ frontend_train
    \/ frontend_usage
    \/ read_stream
    \/ read_stream_eof
    \/ construct_trainer
    \/ trainer_train
    \/ trainer_lbfgs_solve

FrontendSpec == FrontendInit /\ [][FrontendNext]_vars

----------------------------------------------------------------------------
(* Properties. *)

\* The data set d without the instances of group h.
without_group(d, h) ==
    [d EXCEPT !.instances = SelectSeq(d.instances, LAMBDA i : i.group # h)]

\* Whether the data set has an instance of group h that carries observations
\* (for a multi-candidate instance: that has candidates).
has_group(d, h) ==
    \E i \in 1..Len(d.instances) :
        /\ d.instances[i].group = h
        /\ (trainer = "maxent" => d.instances[i].candidates # <<>>)

\* The solver is running and the last call of lbfgs_evaluate has filled g.
evaluated == pc = "solving" /\ g # <<>>

\* Loss and gradient of the linear and of the multi-candidate trainer on the
\* data set from which the group m_holdout is removed, with no holdout group.
holdout_free_evaluation ==
    LET d == without_group(data, m_holdout)
        K == solver.n
    IN  IF trainer = "logress"
        THEN logress_lbfgs_evaluate(d, m_weights, K, -1, m_c1, m_c2,
                                    m_regularization_start)
        ELSE LET obs == maxent_observations(d.instances, K, -1)
             IN  maxent_lbfgs_evaluate(d, m_weights, K, -1, m_c1, m_c2,
                                       m_regularization_start, obs.oexps,
                                       Zeros(obs.M))

\* C1: in trainer_logress::lbfgs_evaluate and trainer_maxent::lbfgs_evaluate
\* the instances of the holdout group add nothing to the loss or the
\* gradient: both equal the loss and gradient computed on the data set with
\* every instance of that group removed.
C1_HoldoutExcludedFromLoss ==
    (evaluated /\ trainer \in {"logress", "maxent"}) =>
        \E r \in {holdout_free_evaluation} : fx = r.loss /\ g = r.g

\* C1 happens: the multi-candidate trainer has evaluated a data set that has
\* instances inside and outside the holdout group, at non-zero weights.
C1_Witness ==
    /\ evaluated
    /\ trainer = "maxent"
    /\ m_holdout = 1
    /\ has_group(data, 1)
    /\ has_group(data, 0)
    /\ m_weights # Zeros(solver.n)
    /\ g # Zeros(solver.n)

\* The number of instances a holdout evaluation has tallied.
tallied ==
    IF trainer = "logress"
    THEN tally.matrix[<<0, 0>>] + tally.matrix[<<0, 1>>]
         + tally.matrix[<<1, 0>>] + tally.matrix[<<1, 1>>]
    ELSE tally.num_total

\* Loss and gradient of the multinomial trainer on the data set from which
\* the group h is removed, with no holdout group.
multi_holdout_free_evaluation(h) ==
    LET d == without_group(data, h)
        K == solver.n
    IN  multi_lbfgs_evaluate(d, m_weights, K, -1, m_c1, m_c2,
            m_regularization_start,
            multi_observations(d.instances, K, num_labels(d), -1))

\* C2: holdout_evaluation of each trainer tallies exactly the instances of the
\* holdout group, and loss and gradient use exactly the other instances, so
\* every instance serves one of the two and never both.
C2_HoldoutPartition ==
    (evaluated /\ tally.ran /\ m_holdout # -1) =>
        /\ tallied = Len(data.instances) - Len(without_group(data, m_holdout).instances)
        /\ \E r \in {IF trainer = "multi"
                     THEN multi_holdout_free_evaluation(m_holdout)
                     ELSE holdout_free_evaluation} : fx = r.loss /\ g = r.g

\* C3: trainer_lbfgs_multi::train leaves the instances whose group is the
\* holdout argument out of the observation expectations m_oexps, so they add
\* nothing to the gradient.
C3_MultiObservationsExcludeHoldout ==
    (trainer = "multi" /\ pc = "solving") =>
        /\ m_oexps = multi_observations(data.instances, solver.n,
                                        num_labels(data), arg.holdout)
        /\ g # <<>> => g = multi_holdout_free_evaluation(arg.holdout).g

\* The probability the saturated logistic function assigns to the score s.
saturated_logistic(s) ==
    IF s < -100 * Scale THEN 0
    ELSE IF s > 100 * Scale THEN Scale
    ELSE Logistic(s)

\* The scores of the instances at the weights of the last evaluation,
\* together with the scores 0, 200 and -200.
scores_seen ==
    { inner_product(m_weights, data.instances[i].features) :
        i \in 1..Len(data.instances) } \cup {0, 200 * Scale, -200 * Scale}

\* C4: logistic_error uses p = 0 for a score below -100, p = 1 for a score
\* above 100 and 1 / (1 + exp(-s)) in between, and returns truth - p; the
\* score 0 gives p = 0.5, the score 200 gives 1 and the score -200 gives 0.
C4_SaturatedLogistic ==
    (evaluated /\ trainer = "logress") =>
        \A s \in scores_seen : \A b \in BOOLEAN :
            /\ logistic_error(b, s).p = saturated_logistic(s)
            /\ logistic_error(b, s).d = BoolValue(b) - saturated_logistic(s)
            /\ logistic_error_b(b, s).p = saturated_logistic(s)
            /\ logistic_error_b(b, s).d = BoolValue(b) - saturated_logistic(s)
            /\ logistic_error(b, 0).p = Scale \div 2
            /\ logistic_error(b, 200 * Scale).p = Scale
            /\ logistic_error(b, -200 * Scale).p = 0

\* C5: with c2 non-zero, trainer_logress::lbfgs_evaluate adds c2 * x[i] to the
\* gradient and 0.5 * c2 * x[i]^2 to the loss for exactly the indices
\* i >= regularization_start; below the start the gradient entry and the
\* loss are those of c2 = 0.
C5_LogressL2FromStart ==
    (evaluated /\ trainer = "logress" /\ m_c2 # 0) =>
        \E r \in {logress_instances(data.instances, m_weights, solver.n, m_holdout)} :
            /\ \A i \in 1..solver.n :
                  g[i] = IF i - 1 >= m_regularization_start
                         THEN r.g[i] + Mul(m_c2, m_weights[i])
                         ELSE r.g[i]
            /\ fx = r.loss
                    + Mul(Mul(m_c2, SquaredNorm(m_weights, m_regularization_start,
                                                solver.n)), Scale \div 2)

\* C5 happens: an L2 evaluation with the start above a non-zero weight, which
\* the penalty therefore leaves alone, and a penalized non-zero weight.
C5_Witness ==
    /\ evaluated
    /\ trainer = "logress"
    /\ m_c2 # 0
    /\ m_regularization_start = 1
    /\ m_weights[1] # 0
    /\ m_weights[2] # 0

\* C6: trainer_logress::train sets c1 = 1/sigma, c2 = 0 for "L1"/"l1",
\* c1 = 0, c2 = 1/sigma^2 for "L2"/"l2", and c1 = c2 = 0 for any other kind.
C6_LogressConstants ==
    (trainer = "logress" /\ pc \in {"allocated", "solving", "reported"}) =>
        /\ m_regularization \in {"L1", "l1"} =>
              m_c1 = Scale \div m_regularization_sigma /\ m_c2 = 0
        /\ m_regularization \in {"L2", "l2"} =>
              /\ m_c1 = 0
              /\ m_c2 = Scale \div (m_regularization_sigma * m_regularization_sigma)
        /\ m_regularization \notin {"L1", "l1", "L2", "l2"} =>
              m_c1 = 0 /\ m_c2 = 0

\* C6 happens: training runs under "l1" with the sigma the caller has set.
C6_Witness ==
    /\ trainer = "logress"
    /\ pc = "solving"
    /\ m_regularization = "l1"
    /\ m_regularization_sigma = 1
    /\ m_c1 = Scale
    /\ m_c2 = 0

\* C7: after any calls of trainer_maxent::set and a call of train, at most
\* one of c1 and c2 is non-zero when the solver and the evaluator run.
C7_MaxentOnePenalty ==
    (trainer = "maxent" /\ pc = "solving") => (m_c1 = 0 \/ m_c2 = 0)

\* The values of c1 a run can differ in.
c1_values == {0, Scale \div DefaultSigma, Scale}

\* C8: loss and gradient of the evaluators of trainer_logress and
\* trainer_maxent do not depend on c1: an evaluation under any other c1, all
\* else equal, returns the same loss and gradient; c1 goes to the solver.
C8_EvaluatorIgnoresC1 ==
    (evaluated /\ trainer \in {"logress", "maxent"}) =>
        /\ \A c \in c1_values :
              \E r \in {evaluate(trainer, data, m_weights, solver.n, m_holdout, c,
                                 m_c2, m_regularization_start, m_oexps, m_scores)} :
                  fx = r.loss /\ g = r.g
        /\ solver.c1 = m_c1

\* C8 happens: an evaluation at non-zero weights while c1 is non-zero.
C8_Witness ==
    /\ evaluated
    /\ trainer = "logress"
    /\ m_c1 # 0
    /\ m_weights[1] # 0
    /\ m_weights[2] # 0

\* C9: in every trainer the progress callback returns 0 for an iteration
\* number k up to the configured maximum and non-zero for a larger k.
C9_ProgressStopsAboveMaximum ==
    (pc \in {"solving", "fault"} /\ k >= 1) =>
        /\ k <= m_maxiter => stop = 0
        /\ k > m_maxiter => stop # 0

\* C9 as the code has it: trainer_maxent::lbfgs_progress returns 0 for
\* k <= m_maxiter and 1 for k > m_maxiter; trainer_logress::lbfgs_progress
\* returns 0 for every k, its maximum being handed to lbfgs_solve instead.
C9_ProgressPerTrainer ==
    (pc \in {"solving", "fault"} /\ k >= 1) =>
        /\ trainer = "maxent" => (k <= m_maxiter => stop = 0)
                                 /\ (k > m_maxiter => stop = 1)
        /\ trainer = "logress" => stop = 0 /\ solver.maxiter = m_maxiter

\* C9 happens: the multi-candidate trainer stops the solver above its maximum.
C9_Witness ==
    /\ trainer = "maxent"
    /\ pc = "solving"
    /\ k > m_maxiter
    /\ stop = 1

\* C10: train returns exactly the status of the solver, and afterwards the
\* weight array is non-null, has one entry per feature and holds the weights
\* the solver last wrote, whatever the status.
C10_TrainReturnsSolverStatus ==
    pc = "done" =>
        /\ ret = solver.status
        /\ m_weights # <<>>
        /\ Len(m_weights) = NumFeaturesOf(trainer, data)
        /\ m_weights = solver.x

\* C10 happens: the solver failed after writing non-zero weights.
C10_Witness ==
    /\ pc = "done"
    /\ ret # 0
    /\ solver.status = ret
    /\ m_weights # Zeros(NumFeaturesOf(trainer, data))

\* train() is about to call the solver, or the solver has been called and has
\* not yet evaluated.
at_solver_call == pc = "allocated" \/ (pc = "solving" /\ g = <<>>)

\* C11: when trainer_logress::train and trainer_maxent::train hand the weight
\* vector to the solver it has one entry per feature of the data set and
\* every entry is 0, on the first call of train and on every later one.
C11_WeightsZeroAtSolverCall ==
    (trainer \in {"logress", "maxent"} /\ at_solver_call) =>
        /\ Len(m_weights) = num_features(data)
        /\ \A i \in 1..Len(m_weights) : m_weights[i] = 0
        /\ pc = "solving" => solver.x = m_weights /\ solver.n = num_features(data)

\* C11 happens: train is called again on a trainer whose earlier run left
\* non-zero weights with the solver, and the array is zero again.
C11_Witness ==
    /\ trainer = "maxent"
    /\ pc = "allocated"
    /\ m_data
    /\ solver.x # Zeros(num_features(data))
    /\ m_weights = Zeros(num_features(data))

\* C12: lbfgs_evaluate, lbfgs_progress and holdout_evaluation never modify
\* the weight vector or the data set: after every step of the solver phase
\* the weights are the ones the solver last wrote, and the data set is the
\* one train() was given.
C12_CallbacksKeepWeights ==
    [][pc = "solving" => (m_weights' = solver'.x /\ data' = data)]_vars

\* C12 happens: the solver wrote non-zero weights, and lbfgs_evaluate,
\* lbfgs_progress and the holdout evaluation ran on them.
C12_Witness ==
    /\ pc = "solving"
    /\ g # <<>>
    /\ k >= 1
    /\ tally.ran
    /\ m_weights # Zeros(solver.n)
    /\ m_weights = solver.x

\* ln 2 in fixed point.
Ln2 == 693

\* The scores of all candidates at the weights of the last evaluation,
\* together with 0.
candidate_scores ==
    UNION { { inner_product(m_weights, data.instances[i].candidates[c].features) :
                c \in 1..Len(data.instances[i].candidates) } :
            i \in 1..Len(data.instances) } \cup {0}

\* C13: with the flag off, logsumexp(a, a) = a + ln 2, logsumexp(a, b) =
\* logsumexp(b, a), for a # b the result is max + ln(1 + e^(min - max)), and
\* it is a when b is far below a; with the flag on the result is the new
\* score, so the normalizer of a single candidate is the score of it.
C13_Logsumexp ==
    (evaluated /\ trainer = "maxent") =>
        /\ \A a \in candidate_scores : \A b \in candidate_scores :
              /\ logsumexp(a, a, FALSE) = a + Ln2
              /\ logsumexp(a, b, FALSE) = logsumexp(b, a, FALSE)
              /\ a > b => logsumexp(a, b, FALSE) = a + Log1p(Exp(b - a))
              /\ a < b => logsumexp(a, b, FALSE) = b + Log1p(Exp(a - b))
              /\ b + 50 * Scale < a => logsumexp(a, b, FALSE) = a
              /\ logsumexp(a, b, TRUE) = b
        /\ \A i \in 1..Len(data.instances) :
              data.instances[i].candidates # <<>> =>
                  maxent_scores(<<data.instances[i].candidates[1]>>, m_weights,
                                Zeros(1)).norm
                  = inner_product(m_weights, data.instances[i].candidates[1].features)

\* C13 happens: the evaluator has run on an instance with candidates while
\* the scores hold two that are close to each other and two that are more
\* than 50 apart.
C13_Witness ==
    /\ evaluated
    /\ trainer = "maxent"
    /\ has_group(data, 0)
    /\ \E a \in candidate_scores : \E b \in candidate_scores :
          a # b /\ Log1p(Exp(b - a)) > 0
    /\ \E a \in candidate_scores : \E b \in candidate_scores : b + 50 * Scale < a

\* The sum of a sequence of numbers.
RECURSIVE SumSeq(_)
SumSeq(q) == IF q = <<>> THEN 0 ELSE q[Len(q)] + SumSeq(SubSeq(q, 1, Len(q) - 1))

\* The activation of feature kk in the feature vector f, scaled by p.
activation(f, kk, p) ==
    SumSeq([j \in 1..Len(f) |-> IF f[j][1] = kk THEN Mul(f[j][2], p) ELSE 0])

\* The scores of the candidates of an instance at the weights x.
scores_of(cands, x) == [c \in 1..Len(cands) |-> inner_product(x, cands[c].features)]

\* The normalizer of a sequence of scores: their pairwise log-sum-exp.
RECURSIVE log_sum_exp(_)
log_sum_exp(sc) ==
    IF Len(sc) = 1 THEN sc[1]
    ELSE logsumexp(log_sum_exp(SubSeq(sc, 1, Len(sc) - 1)), sc[Len(sc)], FALSE)

\* The instances the evaluator includes, and whether each of them has exactly
\* one true candidate.
included_instances == SelectSeq(data.instances, LAMBDA i : i.group # m_holdout)

one_true_candidate(inst) ==
    Cardinality({c \in 1..Len(inst.candidates) : inst.candidates[c].truth}) = 1

true_candidate(inst) ==
    CHOOSE c \in 1..Len(inst.candidates) : inst.candidates[c].truth

\* Normalizer minus the score of the true candidate, summed over the
\* included instances.
expected_loss ==
    SumSeq([i \in 1..Len(included_instances) |->
        LET sc == scores_of(included_instances[i].candidates, m_weights)
        IN  log_sum_exp(sc) - sc[true_candidate(included_instances[i])]])

\* The model-expected activation of feature k: exp(score - normalizer) times
\* the feature value, summed over the included instances and candidates.
expected_activation(kk) ==
    SumSeq([i \in 1..Len(included_instances) |->
        LET cands == included_instances[i].candidates
            sc    == scores_of(cands, m_weights)
        IN  SumSeq([c \in 1..Len(cands) |->
                activation(cands[c].features, kk, Exp(sc[c] - log_sum_exp(sc)))])])

\* The observed activation of feature k: the value of the true candidate,
\* summed over the included instances.
observed_activation(kk) ==
    SumSeq([i \in 1..Len(included_instances) |->
        activation(included_instances[i].candidates[
                       true_candidate(included_instances[i])].features, kk, Scale)])

\* C14: when every included instance has exactly one true candidate, the loss
\* of trainer_maxent::lbfgs_evaluate before regularization is the sum of
\* (normalizer - score of the true candidate) and its gradient entry k before
\* regularization is the expected minus the observed activation of feature k.
C14_MaxentLossAndGradient ==
    (/\ evaluated
     /\ trainer = "maxent"
     /\ \A i \in 1..Len(included_instances) :
           one_true_candidate(included_instances[i])) =>
        /\ fx - Mul(Mul(m_c2, SquaredNorm(m_weights, 0, solver.n)), Scale \div 2)
           = expected_loss
        /\ \A kk \in 0..(solver.n - 1) :
              g[kk + 1] - Mul(m_c2, m_weights[kk + 1])
              = expected_activation(kk) - observed_activation(kk)

\* C14 happens: an evaluation at non-zero weights over two included
\* instances with one true candidate each, with a non-zero gradient.
C14_Witness ==
    /\ evaluated
    /\ trainer = "maxent"
    /\ Len(included_instances) = 2
    /\ \A i \in 1..2 : one_true_candidate(included_instances[i])
    /\ m_weights # Zeros(solver.n)
    /\ m_c2 = 0
    /\ g # Zeros(solver.n)
    /\ fx > 0


\* The dictionaries of the data set and the names the readers intern.
dictionaries == {data.features, data.labels, data.attributes}

InternedNames == {"a", "b", "T", "TP", "@bias@T"}

no_duplicates(q) == \A i, j \in 1..Len(q) : q[i] = q[j] => i = j

is_prefix(q, r) == Len(q) <= Len(r) /\ SubSeq(r, 1, Len(q)) = q

\* What one more call of operator()(x) does to a dictionary the readers have
\* built.
intern_contract(q, x) ==
    /\ to_item(quark_intern(q, x), quark_id(q, x)) = x
    /\ quark_has(q, x) => quark_intern(q, x) = q
    /\ ~quark_has(q, x) =>
          /\ quark_id(q, x) = quark_size(q)
          /\ quark_size(quark_intern(q, x)) = quark_size(q) + 1
    /\ is_prefix(q, quark_intern(q, x))
    /\ quark_intern(quark_intern(q, x), x) = quark_intern(q, x)
    /\ quark_id(quark_intern(q, x), x) = quark_id(q, x)

\* C15: the dictionaries of the readers give ids in the order in which the
\* names are first seen, from 0 and without gaps; a name interned again keeps
\* its id and the size; an id once given stays with its name through every
\* step of the readers; and to_item gives back the name that was interned.
C15_DictionaryIds ==
    /\ [](\A q \in dictionaries :
            /\ no_duplicates(q)
            /\ \A x \in InternedNames : intern_contract(q, x))
    /\ [][/\ is_prefix(data.features, data'.features)
          /\ is_prefix(data.labels, data'.labels)
          /\ is_prefix(data.attributes, data'.attributes)]_vars

\* Three lines have given features to two instances out of a dictionary of
\* two names, so a name has been interned again.
C15_Witness ==
    /\ opt.frontend = "train/attribute"
    /\ Len(data.instances) = 3
    /\ quark_size(data.features) = 2
    /\ quark_size(data.labels) = 2
    /\ \A i \in 1..3 : data.instances[i].attributes # <<>>

\* multi_train or attribute_train has been asked for an algorithm other than
\* "maxent".
unknown_algorithm == opt.frontend # "multi_select" /\ opt.algorithm # "maxent"

\* C16: an algorithm name other than "maxent" makes multi_train and
\* attribute_train throw invalid_algorithm with that name, before a trainer is
\* constructed or a line is read or a training step is taken, and makes the
\* usage functions return false.
C16_UnknownAlgorithm ==
    (unknown_algorithm /\ pc # "start") =>
        /\ trainer = "none"
        /\ data = EmptyData
        /\ lines = 0
        /\ m_weights = <<>>
        /\ ~solver.called
        /\ \/ pc = "thrown" /\ thrown = invalid_algorithm(opt.algorithm)
           \/ pc = "usage" /\ thrown = NoException /\ ret = FALSE

\* attribute_train has thrown for the algorithm "logress".
C16_Witness ==
    /\ opt.frontend = "train/attribute"
    /\ opt.algorithm = "logress"
    /\ pc = "thrown"
    /\ thrown = invalid_algorithm("logress")

\* C17: every instance read_stream has created carries the group that was
\* given to read_stream, in each of the readers.
C17_InstancesCarryGroup ==
    \A i \in 1..Len(data.instances) : data.instances[i].group = opt.group

\* The feature dictionary a frontend fills, whose size is K.
feature_dictionary(d, frontend) ==
    IF frontend = "multi_select" THEN d.attributes ELSE d.features

\* The feature vectors of an instance: those of its candidates, or its
\* attribute vector.
feature_vectors(inst, frontend) ==
    IF candidate_data(frontend)
    THEN {inst.candidates[c].features : c \in 1..Len(inst.candidates)}
    ELSE {inst.attributes}

\* Whether every feature id of the vector is inside [0, K).
ids_below(v, K) == \A j \in 1..Len(v) : 0 <= v[j][1] /\ v[j][1] < K

has_bias_feature(d) ==
    \E i \in 1..Len(d.instances) : \E c \in 1..Len(d.instances[i].candidates) :
       \E j \in 1..Len(d.instances[i].candidates[c].features) :
          to_item(d.features, d.instances[i].candidates[c].features[j][1])
             = bias_name(d, d.instances[i].candidates[c])

\* C18: once the stream is read, every feature id of every instance and
\* candidate, bias features included, is below the size K of the feature
\* dictionary; the arrays of the trainer have length K; and every instance
\* the evaluator scores has at most as many candidates as the score buffer
\* has entries.
C18_IdsInsideArrays ==
    /\ pc \in {"read", "training", "allocated", "solving"} =>
          \A i \in 1..Len(data.instances) :
          \A v \in feature_vectors(data.instances[i], opt.frontend) :
             ids_below(v, quark_size(feature_dictionary(data, opt.frontend)))
    /\ pc \in {"allocated", "solving"} =>
          /\ Len(m_weights) = quark_size(data.features)
          /\ Len(m_oexps) = quark_size(data.features)
          /\ Len(m_mexps) = quark_size(data.features)
    /\ pc = "solving" =>
          /\ solver.n = quark_size(data.features)
          /\ \A i \in 1..Len(data.instances) :
                ~maxent_excluded(data.instances[i], m_holdout) =>
                    Len(data.instances[i].candidates) <= Len(m_scores)

\* The solver has been called on a data set whose candidates carry a bias
\* feature, one instance having two candidates.
C18_Witness ==
    /\ pc = "solving"
    /\ opt.generate_bias
    /\ Len(data.instances) >= 1
    /\ has_bias_feature(data)
    /\ Len(m_scores) = 2

\* C19: a line that is not a valid record makes read_stream throw
\* invalid_data with the number of that line; nothing is read after it, and
\* the data set is as it was before the line: no instance or candidate of the
\* failing record is left in it.
C19_InvalidRecordAborts ==
    [][/\ pc # "thrown"
       /\ thrown'.what = "invalid_data" =>
             /\ pc' = "thrown"
             /\ thrown'.lines = lines'
             /\ data' = data]_vars

\* A step in which the solver calls lbfgs_evaluate or lbfgs_progress.
callback_step == (g' # g /\ g' # <<>>) \/ k' = k + 1

\* A step in which train() hands the weights to the solver.
solver_call_step == solver'.called /\ ~solver.called

\* A step in which a holdout evaluation runs.
evaluation_step == tally' # tally /\ tally'.ran

\* C20: within a call of train() the weights are allocated and zeroed, then
\* the data set and the log sink are bound and the solver is called, the
\* callbacks run only between that call and the status report, one status is
\* reported and it is the one returned, and trainer_logress runs its final
\* holdout evaluation only after the report and only with a holdout group or
\* a false analysis asked for.
C20_TrainPhases ==
    [][/\ solver_call_step =>
             /\ pc = "allocated"
             /\ m_weights = Zeros(NumFeaturesOf(trainer, data))
             /\ m_data' /\ m_os'
       /\ callback_step =>
             /\ pc = "solving" /\ solver.called
             /\ m_data /\ m_os
       /\ pc' = "allocated" => pc \in {"idle", "done"}
       /\ pc' = "solving" => pc \in {"allocated", "solving"}
       /\ pc' = "reported" => pc = "solving" /\ ret' = solver'.status
       /\ (pc' = "done" /\ pc # "done") =>
             pc = "reported" /\ ret' = ret /\ solver' = solver
       /\ ret' # ret => pc' \in {"allocated", "reported"}
       /\ (evaluation_step /\ pc # "solving") =>
             /\ pc = "reported"
             /\ trainer = "logress"
             /\ arg.holdout # -1 \/ arg.false_analysis]_vars

\* trainer_logress::train has returned a failure status after a final
\* evaluation that only the false analysis asked for, the callbacks having
\* run before.
C20_Witness ==
    /\ pc = "done"
    /\ trainer = "logress"
    /\ arg.false_analysis
    /\ arg.holdout = -1
    /\ tally.ran
    /\ ret # 0
    /\ m_weights # Zeros(num_features(data))

\* The instances of the holdout group, by their positions in the data set.
holdout_instances(d, holdout) ==
    {i \in 1..Len(d.instances) : d.instances[i].group = holdout}

\* The cell (rl, ml) of the confusion matrix of the binary rule: positive
\* exactly for a score above 0.
binary_cell(d, w, holdout, rl, ml) ==
    Cardinality({i \in holdout_instances(d, holdout) :
        /\ (d.instances[i].truth <=> rl = 1)
        /\ (inner_product(w, d.instances[i].features) > 0 <=> ml = 1)})

\* The candidate the maximum rule selects: the first of those with the
\* largest score.
selected_candidate(cands, w) ==
    CHOOSE c \in 1..Len(cands) :
        /\ \A j \in 1..Len(cands) :
              inner_product(w, cands[j].features) <= inner_product(w, cands[c].features)
        /\ \A j \in 1..(c - 1) :
              inner_product(w, cands[j].features) < inner_product(w, cands[c].features)

correct_instances(d, w, holdout) ==
    {i \in holdout_instances(d, holdout) :
        d.instances[i].candidates[selected_candidate(d.instances[i].candidates, w)].truth}

\* C21: a holdout evaluation of trainer_logress predicts positive exactly for
\* a score above 0 and counts each holdout instance in the cell (truth,
\* prediction); one of trainer_maxent, on holdout instances that have
\* candidates, selects the first candidate of maximum score, counts the
\* instance correct exactly when that candidate is true, and reports
\* correct/total, or 0 for no instance.
C21_HoldoutPrediction ==
    [][evaluation_step =>
          /\ trainer = "logress" =>
                \A rl, ml \in 0..1 :
                   tally'.matrix[<<rl, ml>>] =
                       binary_cell(data, m_weights, m_holdout, rl, ml)
          /\ (/\ trainer = "maxent"
              /\ \A i \in holdout_instances(data, m_holdout) :
                    data.instances[i].candidates # <<>>) =>
                /\ ~tally'.fault
                /\ tally'.num_total = Cardinality(holdout_instances(data, m_holdout))
                /\ tally'.num_correct =
                       Cardinality(correct_instances(data, m_weights, m_holdout))
                /\ tally'.num_total = 0 => tally'.accuracy = 0
                /\ tally'.num_total > 0 =>
                       tally'.accuracy =
                           (tally'.num_correct * Scale) \div tally'.num_total]_vars

\* The final holdout evaluation of trainer_logress has met a true instance
\* whose score is exactly 0 and has counted it as predicted negative.
C21_Witness ==
    /\ trainer = "logress"
    /\ pc = "done"
    /\ tally.ran
    /\ m_holdout = 1
    /\ m_weights = <<0, 0>>
    /\ tally.matrix[<<1, 0>>] >= 1

\* log p(truth) of the logistic model at the score z.
log_probability(truth, z) == IF truth THEN LogLogistic(z) ELSE LogLogistic(-z)

\* truth - probability of the logistic model at the score z.
probability_error(truth, z) == BoolValue(truth) - Logistic(z)

\* -w * log p(truth) summed over the included instances.
logistic_loss ==
    SumSeq([i \in 1..Len(included_instances) |->
        -Mul(included_instances[i].weight,
             log_probability(included_instances[i].truth,
                 inner_product(m_weights, included_instances[i].features)))])

\* -d * value * w summed over the entries with the id kk of the included
\* instances.
logistic_gradient(kk) ==
    SumSeq([i \in 1..Len(included_instances) |->
        activation(included_instances[i].features, kk,
            -Mul(probability_error(included_instances[i].truth,
                     inner_product(m_weights, included_instances[i].features)),
                 included_instances[i].weight))])

\* C22: without regularization, the loss trainer_logress::lbfgs_evaluate
\* returns is the sum of -w * log p(truth) over the included instances, and
\* g[id] is the sum of -d * value * w over all their entries with that id, d
\* being truth - probability: duplicate ids accumulate and an id that occurs
\* in no included instance has g[id] = 0.
C22_LogressLossAndGradient ==
    (evaluated /\ trainer = "logress" /\ m_c2 = 0) =>
        /\ fx = logistic_loss
        /\ \A kk \in 0..(Len(g) - 1) : g[kk + 1] = logistic_gradient(kk)

\* The activation of the feature kk of (attribute, label l) in the attribute
\* vector f, scaled by p.
generated_activation(f, l, kk, p) ==
    SumSeq([j \in 1..Len(f) |->
        IF forward(f[j][1], l, num_labels(data)) = kk THEN Mul(f[j][2], p) ELSE 0])

\* The probability of label l for the attribute vector f at the weights of
\* the last evaluation.
label_probability(f, l) ==
    LET sc == label_scores(m_weights, f, num_labels(data))
    IN  Exp(sc[l + 1] - log_sum_exp(sc))

\* The indicator of the gold label of each included instance, expanded
\* through the feature generator.
observed_indicator(kk) ==
    SumSeq([i \in 1..Len(included_instances) |->
        generated_activation(included_instances[i].features,
                             included_instances[i].label, kk, Scale)])

\* The expected probability per label of each included instance, expanded
\* through the feature generator.
expected_probability(kk) ==
    SumSeq([i \in 1..Len(included_instances) |->
        SumSeq([l \in 1..num_labels(data) |->
            generated_activation(included_instances[i].features, l - 1, kk,
                label_probability(included_instances[i].features, l - 1))])])

\* -log prob(gold label) summed over the included instances.
multinomial_loss ==
    SumSeq([i \in 1..Len(included_instances) |->
        LET sc == label_scores(m_weights, included_instances[i].features,
                               num_labels(data))
        IN  log_sum_exp(sc) - sc[included_instances[i].label + 1]])

\* C23 as stated: the gradient trainer_lbfgs_multi::loss_and_gradient returns
\* is the observed indicator minus the expected probability per label,
\* expanded through the feature generator and summed over the included
\* instances, and the loss is the sum of -log prob(gold label).
C23_MultiGradientObservedMinusExpected ==
    (evaluated /\ trainer = "multi" /\ m_c2 = 0) =>
        /\ fx = multinomial_loss
        /\ \A kk \in 0..(Len(g) - 1) :
              g[kk + 1] = observed_indicator(kk) - expected_probability(kk)

\* C23: the gradient trainer_lbfgs_multi::loss_and_gradient returns is the
\* expected probability per label of the included instances, expanded through
\* the feature generator, minus the observation expectations m_oexps that
\* train() has stored, which are the observed indicators of the included
\* instances whenever train() has left out the same group; the loss is the
\* sum of -log prob(gold label) over the included instances.
C23_MultiGradientExpectedMinusObserved ==
    (evaluated /\ trainer = "multi" /\ m_c2 = 0) =>
        /\ fx = multinomial_loss
        /\ \A kk \in 0..(Len(g) - 1) :
              /\ g[kk + 1] = expected_probability(kk) - m_oexps[kk + 1]
              /\ m_oexps = multi_observations(data.instances, solver.n,
                                              num_labels(data), m_holdout)
                    => g[kk + 1] = expected_probability(kk) - observed_indicator(kk)

\* The multinomial evaluator has run on included instances whose observed
\* and expected activations differ.
C23_Witness ==
    /\ evaluated
    /\ trainer = "multi"
    /\ m_c2 = 0
    /\ Len(included_instances) >= 2
    /\ m_oexps = multi_observations(data.instances, solver.n, num_labels(data),
                                    m_holdout)
    /\ \E kk \in 0..(Len(g) - 1) : observed_indicator(kk) # 0 /\ g[kk + 1] # 0
    /\ fx # 0

\* C24: with c2 non-zero, trainer_maxent::lbfgs_evaluate adds c2 * x[i] to
\* the gradient and 0.5 * c2 * x[i]^2 to the loss for exactly the indices
\* i >= the user-feature start of the data set; below the start the gradient
\* entry and the loss are those of c2 = 0.
C24_MaxentL2FromStart ==
    (evaluated /\ trainer = "maxent" /\ m_c2 # 0) =>
        \E r \in {maxent_lbfgs_evaluate(data, m_weights, solver.n, m_holdout, m_c1,
                                        0, 0, m_oexps, m_scores)} :
            /\ \A i \in 1..solver.n :
                  g[i] = IF i - 1 >= data.user_feature_start
                         THEN r.g[i] + Mul(m_c2, m_weights[i])
                         ELSE r.g[i]
            /\ fx = r.loss
                    + Mul(Mul(m_c2, SquaredNorm(m_weights, data.user_feature_start,
                                                solver.n)), Scale \div 2)

\* The line search the user has configured: the caller never sets
\* lbfgs.linesearch, so it is the default of the parameter table.
configured_linesearch == "MoreThuente"

\* C25: every call of trainer_logress::train hands the solver the
\* Backtracking line search exactly when the regularization of that call is
\* L1, and the configured line search otherwise, also after an earlier L1 run
\* on the same trainer; and the parameter table keeps the configured line
\* search between the runs.
C25_LinesearchPerCall ==
    trainer = "logress" =>
        /\ pc = "solving" =>
              solver.linesearch = IF IsL1(m_regularization) THEN "Backtracking"
                                  ELSE configured_linesearch
        /\ pc \in {"idle", "done"} => m_lbfgs_linesearch = configured_linesearch

\* Loss and gradient of a call of lbfgs_evaluate at the weights of the last
\* call, made in the state that call has left: the gradient buffer, the
\* expectation buffer and the score buffer hold what it wrote.
evaluated_again ==
    evaluate(trainer, data, solver.x, solver.n, m_holdout, m_c1, m_c2,
             m_regularization_start, m_oexps, m_scores)

\* C26: a call of lbfgs_evaluate, made after any earlier calls and on the
\* buffers they have left, returns the loss and writes the gradient that a
\* second call with the same x returns and writes on the buffers the first
\* one leaves: loss and gradient depend on x, the data set, the holdout group
\* and the constants only, and no gradient entry is left from an earlier
\* call.
C26_EvaluateHistoryFree ==
    evaluated => \E r \in {evaluated_again} : fx = r.loss /\ g = r.g

\* The evaluator of trainer_maxent has run at non-zero weights on buffers
\* that an earlier call has filled, and the solver has gone through an
\* iteration.
C26_Witness ==
    /\ evaluated
    /\ trainer = "maxent"
    /\ k >= 1
    /\ has_group(data, 0)
    /\ m_weights # Zeros(Len(m_weights))
    /\ \E i \in 1..Len(m_mexps) : m_mexps[i] # 0
    /\ \E i \in 1..Len(g) : g[i] # 0

\* C27: with c2 = 0 the loss that lbfgs_evaluate of trainer_logress and of
\* trainer_maxent returns is a negative log-likelihood and is never
\* negative.
C27_LossNonNegative ==
    (evaluated /\ trainer \in {"logress", "maxent"} /\ m_c2 = 0) => fx >= 0

\* C28: in the multi-candidate readers no line read while the data set has
\* no instance, that is before any @boi (@BOI) line, makes read_stream read
\* data.back() of the empty data set: a candidate record there is rejected
\* with invalid_data.
C28_CandidateAfterBoi ==
    [][(pc = "reading" /\ candidate_data(opt.frontend) /\ data.instances = <<>>)
           => pc' # "fault"]_vars

\* C29: in the reader of train/multi.cpp an @unregularize line that comes
\* after an instance has been started is rejected, so from the first @boi on
\* no line of the stream changes the start of the user features.
C29_UnregularizePrecedesInstances ==
    [][(pc = "reading" /\ opt.frontend = "train/multi" /\ data.instances # <<>>)
           => data'.user_feature_start = data.user_feature_start]_vars

\* C30: trainer_maxent::holdout_evaluation reads is_true() from a candidate
\* of the instance only, never through the end iterator: no evaluation of the
\* holdout group ends in the fault of such a read.
C30_MaxentReadsCandidate ==
    trainer = "maxent" => ~tally.fault
====
